---- MODULE Spec2Model ----
(***************************************************************************)
(* Verification model of the resilience-and-event backbone of the AIOps    *)
(* platform: the per-dependency circuit breaker                            *)
(* (app/utils/circuit_breaker.py), the priority notification queue and     *)
(* its dispatcher (app/services/notification_service.py), and the log      *)
(* stream with its consumer group and anomaly detector                     *)
(* (app/services/streaming_service.py).                                    *)
(*                                                                         *)
(* Each subsystem has its own specification over the shared variables:     *)
(*   SpecCB      one named breaker called by concurrent callers            *)
(*   SpecQueue   NotificationQueue.enqueue/dequeue with two dequeuers      *)
(*   SpecNotify  NotificationService.send, the processor loop, retries     *)
(*   SpecStream  publish / consumer group / acknowledgment                 *)
(*   SpecAD      AnomalyDetector.process_log fed with consumed entries     *)
(* A specification leaves the variables of the other subsystems unchanged. *)
(***************************************************************************)
EXTENDS Integers, Sequences, FiniteSets, Bags, TLC

VARIABLES
  \* ---- CircuitBreaker (one instance, CircuitBreakerState fields) ----
  state,              \* CircuitState: "closed" | "open" | "half_open"
  failure_count,
  success_count,
  last_failure_time,
  now,                \* time.time() as read by the breaker
  pc,                 \* per caller: "idle" | "calling" | "rejected"
  streak,             \* history: counted failures recorded in CLOSED since the
                      \* last recorded success, reset or closing
  hoSucc,             \* history: successes recorded since HALF_OPEN was entered
  cumFails,           \* history: counted failures recorded in CLOSED since the
                      \* breaker was last closed or reset (up to MaxCumFails)
  exclSeen,           \* history: breaker states in which an excluded exception
                      \* was raised by func
  lastQuery,          \* history: the last state query [q, r, late]
  lateSuccess,        \* history: a success was recorded while OPEN since the
                      \* last reset
  \* ---- NotificationQueue / NotificationService ----
  queue,              \* Redis sorted set QUEUE_KEY: set of [member, score]
  failed,             \* Redis list FAILED_KEY (head first)
  processed,          \* Redis counter PROCESSED_KEY
  nqNow,              \* time.time() as read by enqueue / asyncio.sleep
  nextId,             \* number of notifications created so far
  dq,                 \* per dequeuer: [pc, item] position inside dequeue()
  returned,           \* history: per notification id, number of dequeue() calls
                      \* that returned it
  tasks,              \* asyncio tasks created by the service (a bag)
  attempts,           \* history: per id, number of dispatch attempts
  allFailed,          \* history: per id, every channel failed in every attempt
  lastDelay,          \* history: per id, the last backoff delay computed
  delaysOk,           \* history: per id, no delay was shorter than the one before
  procRunning,        \* NotificationService._running
  shut,               \* "up" | "down" (shutdown_event ran) | "closed" (loop closed)
  sentPriority,       \* history: per id, the priority given to send ("none": not sent)
  incrCount,          \* history: per id, increments of PROCESSED_KEY
  chanOk,             \* history: per id, channels whose handler succeeded
  reinvoked,          \* history: per id, a handler ran again after it had succeeded
  redelivered,        \* history: per id, a handler succeeded again on a channel
                      \* on which it had succeeded
  otherDispatched,    \* history: a notification was dispatched during another's backoff wait
  \* ---- StreamingService ----
  stream,             \* number of entries appended to STREAM_KEY (ids 1..stream)
  lastDelivered,      \* the group's last-delivered id
  pel,                \* pending entries list: entry id -> owning consumer
  handlers,           \* StreamingService._handlers (a sequence)
  running,            \* StreamingService._running
  cons,               \* per consumer: [pc, batch, h] position in start_consumer
  invoked,            \* history: per entry, per handler index, invocations
  ackCount,           \* history: per entry, number of successful XACKs
  ackedWith,          \* history: per entry, Len(handlers) when it was acknowledged
  faults,             \* history: number of crashes / cancellations / failed XACKs
  emptyReads,         \* per consumer: parity of the loop turns whose read was empty
  raisedOn,           \* history: per entry, some handler raised on it
  readsAfterStop,     \* history: per consumer, reads that returned since _running was cleared
  \* ---- StreamingService buffer ----
  buffer,             \* len(self._buffer)
  last_flush,         \* self._last_flush
  bufNow,             \* time.time() as read by buffer_log / _flush_buffer
  buffered,           \* history: number of buffer_log calls
  flushes,            \* history: number of flushes
  lastFlushLen,       \* history: number of entries taken by the last flush
  lastBatch,          \* history: the last batch handed to publish_batch [from, to, ok, logged]
  \* ---- Named breakers and the call sites they protect ----
  instances,          \* CircuitBreaker._instances: name -> object id (0: absent)
  objects,            \* the CircuitBreaker objects, by object id
  held,               \* per holder: id of the object its CircuitBreaker(name) returned
  heldName,           \* per holder: the name it constructed with ("none": not yet)
  provNow,            \* time.time() as read by the named breakers
  req,                \* the request in progress: [pc, kind, p, s]
  lastDone,           \* history: the last finished request [kind, p, s, result]
  \* ---- Channel handlers ----
  hCfg,               \* channels whose settings are present
  hDown,              \* channels whose transport currently fails
  hOut,               \* history: the last _process_notification pass
  \* ---- AnomalyDetector ----
  error_counts,       \* _error_counts: service -> count
  alerted_services,   \* _alerted_services
  last_reset,         \* _last_reset
  adNow,              \* time.time() as read by process_log
  telegramAlerts,     \* per service: anomaly messages handed to telegram_service
  winErrs,            \* history: error-level entries per service since the reset
  winAlerts,          \* history: alerts raised per service since the reset
  span,               \* history: errors and alerts of Watched in this and the last clock step
  \* ---- The consumer inside default_log_handler ----
  alPc,               \* "read" | "alert" (suspended in _trigger_alert) | "ack"
  alDelivery          \* the last anomaly message: "none" | "inflight" | "done"

cbVars == <<state, failure_count, success_count, last_failure_time, now, pc,
            streak, hoSucc, cumFails, exclSeen, lastQuery,
            lateSuccess>>
nqVars == <<queue, failed, processed, nqNow, nextId, dq, returned, tasks,
            attempts, allFailed, lastDelay, delaysOk>>
stVars == <<stream, lastDelivered, pel, handlers, running, cons, invoked,
            ackCount, ackedWith, faults, emptyReads, raisedOn,
            readsAfterStop>>
adVars == <<error_counts, alerted_services, last_reset, adNow, telegramAlerts,
            winErrs, winAlerts, span>>
svVars == <<procRunning, shut, sentPriority, incrCount, chanOk, reinvoked, redelivered,
            otherDispatched>>
pvVars == <<instances, objects, held, heldName, provNow, req, lastDone>>
bfVars == <<buffer, last_flush, bufNow, buffered, flushes, lastFlushLen,
            lastBatch>>
chVars == <<hCfg, hDown, hOut>>
alVars == <<alPc, alDelivery>>
vars == <<cbVars, nqVars, svVars, stVars, adVars, bfVars, pvVars, chVars, alVars>>

\* What an operation of one subsystem leaves alone: the other subsystems.
CBFrame == UNCHANGED <<nqVars, svVars, stVars, adVars, bfVars, pvVars, chVars, alVars>>
NQFrame == UNCHANGED <<cbVars, stVars, adVars, bfVars, pvVars, chVars, alVars>>
STFrame == UNCHANGED <<cbVars, nqVars, svVars, adVars, bfVars, pvVars, chVars, alVars>>
ADFrame == UNCHANGED <<cbVars, nqVars, svVars, stVars, bfVars, pvVars, chVars>>
PVFrame == UNCHANGED <<cbVars, nqVars, svVars, stVars, adVars, bfVars, chVars, alVars>>
CHFrame == UNCHANGED <<cbVars, nqVars, svVars, stVars, adVars, bfVars, pvVars, alVars>>
\* A flush of the buffer publishes to the stream and touches nothing else.
BFFrame == UNCHANGED <<cbVars, nqVars, svVars, adVars, pvVars, chVars, alVars,
                       lastDelivered, pel, handlers,
                       running, cons, invoked, ackCount, ackedWith, faults,
                       emptyReads, raisedOn, readsAfterStop>>

(***************************************************************************)
(*                            CircuitBreaker                               *)
(***************************************************************************)

\* CircuitBreakerConfig of the modelled instance (any values >= 1 are legal).
FailureThreshold == 2
SuccessThreshold == 2
Timeout == 2
\* Bound of the breaker model: the clock.
MaxTime == 5
\* Bound of the history counter cumFails.
MaxCumFails == 3
Callers == {1, 2}

CLOSED == "closed"
OPEN == "open"
HALF_OPEN == "half_open"

CBInit ==
  /\ state = CLOSED
  /\ failure_count = 0
  /\ success_count = 0
  /\ last_failure_time = 0
  /\ now = 0
  /\ pc = [c \in Callers |-> "idle"]
  /\ streak = 0
  /\ hoSucc = 0
  /\ cumFails = 0
  /\ exclSeen = {}
  /\ lastQuery = [q |-> "none", r |-> FALSE, late |-> FALSE]
  /\ lateSuccess = FALSE

\* Mutation of TimeoutPassed: strict comparison with the timeout.
TimeoutPassed_Strict == now - last_failure_time > Timeout

\* _check_state under the lock, when the breaker is OPEN and the timeout has
\* passed: the trial admission.
TimeoutPassed == now - last_failure_time >= Timeout

\* CircuitBreaker._check_state: TRUE when the request is allowed.
CheckAllowed ==
  IF state = CLOSED THEN TRUE
  ELSE IF state = OPEN THEN TimeoutPassed
  ELSE TRUE

\* The state updates of _check_state (the OPEN -> HALF_OPEN transition).
CheckStateEffect ==
  IF state = OPEN /\ TimeoutPassed
  THEN /\ state' = HALF_OPEN
       /\ success_count' = 0
       /\ hoSucc' = 0
  ELSE UNCHANGED <<state, success_count, hoSucc>>

\* call() / the decorator's wrapper up to the invocation of func: the admission
\* check, then either func is invoked ("calling") or CircuitBreakerOpenError is
\* raised ("rejected").
CheckState(c) ==
  /\ pc[c] = "idle"
  /\ CheckStateEffect
  /\ pc' = [pc EXCEPT ![c] = IF CheckAllowed THEN "calling" ELSE "rejected"]
  /\ UNCHANGED <<failure_count, last_failure_time, now, streak>>
  /\ UNCHANGED <<cumFails, exclSeen, lastQuery, lateSuccess>>
  /\ CBFrame

\* Mutation of RaiseOpen: the rejection is recorded like a failure of func.
RaiseOpen_Counted(c) ==
  /\ pc[c] = "rejected"
  /\ pc' = [pc EXCEPT ![c] = "idle"]
  /\ failure_count' = failure_count + 1
  /\ last_failure_time' = now
  /\ UNCHANGED <<state, success_count, now, streak, hoSucc>>
  /\ UNCHANGED <<cumFails, exclSeen, lastQuery, lateSuccess>>
  /\ CBFrame

\* CircuitBreakerOpenError propagates to the caller; func was never invoked.
\* (The raise stands before the try of call / wrapper: nothing is recorded.)
RaiseOpen(c) ==
  /\ pc[c] = "rejected"
  /\ pc' = [pc EXCEPT ![c] = "idle"]
  /\ UNCHANGED <<state, failure_count, success_count, last_failure_time, now,
                 streak, hoSucc>>
  /\ UNCHANGED <<cumFails, exclSeen, lastQuery, lateSuccess>>
  /\ CBFrame

\* Mutation of ClosedSuccessCount: failures accumulate across successes.
ClosedSuccessCount_Cumulative(fc) == fc

\* _record_success in CLOSED: failure_count afterwards ("Reset failure count
\* on success").
ClosedSuccessCount(fc) == 0

\* Mutation of RecordSuccess: closing without zeroing failure_count.
RecordSuccess_KeepsFailures ==
  /\ IF state = HALF_OPEN
     THEN /\ success_count' = success_count + 1
          /\ hoSucc' = hoSucc + 1
          /\ state' = IF success_count + 1 >= SuccessThreshold THEN CLOSED ELSE state
          /\ UNCHANGED failure_count
     ELSE IF state = CLOSED
     THEN /\ failure_count' = 0
          /\ UNCHANGED <<state, success_count, hoSucc>>
     ELSE UNCHANGED <<state, failure_count, success_count, hoSucc>>
  /\ streak' = 0
  /\ UNCHANGED <<last_failure_time>>

\* CircuitBreaker._record_success.
RecordSuccess ==
  /\ IF state = HALF_OPEN
     THEN /\ success_count' = success_count + 1
          /\ hoSucc' = hoSucc + 1
          /\ IF success_count + 1 >= SuccessThreshold
             THEN /\ state' = CLOSED
                  /\ failure_count' = 0
             ELSE UNCHANGED <<state, failure_count>>
     ELSE IF state = CLOSED
     THEN /\ failure_count' = ClosedSuccessCount(failure_count)
          /\ UNCHANGED <<state, success_count, hoSucc>>
     ELSE UNCHANGED <<state, failure_count, success_count, hoSucc>>
  /\ streak' = 0
  /\ UNCHANGED <<last_failure_time>>

\* Mutation of RecordFailure: the breaker trips one failure late.
RecordFailure_TripsLate ==
  /\ failure_count' = failure_count + 1
  /\ last_failure_time' = now
  /\ IF state = HALF_OPEN
     THEN state' = OPEN
     ELSE IF state = CLOSED /\ failure_count + 1 > FailureThreshold
     THEN state' = OPEN
     ELSE UNCHANGED state
  /\ streak' = IF state = CLOSED THEN streak + 1 ELSE streak
  /\ UNCHANGED <<success_count, hoSucc>>

\* CircuitBreaker._record_failure for an exception that is not excluded.
RecordFailure ==
  /\ failure_count' = failure_count + 1
  /\ last_failure_time' = now
  /\ IF state = HALF_OPEN
     THEN state' = OPEN
     ELSE IF state = CLOSED /\ failure_count + 1 >= FailureThreshold
     THEN state' = OPEN
     ELSE UNCHANGED state
  /\ streak' = IF state = CLOSED THEN streak + 1 ELSE streak
  /\ UNCHANGED <<success_count, hoSucc>>

\* func returned: result recorded and handed back.
CallSuccess(c) ==
  /\ pc[c] = "calling"
  /\ RecordSuccess
  /\ pc' = [pc EXCEPT ![c] = "idle"]
  /\ cumFails' = IF state # CLOSED /\ state' = CLOSED THEN 0 ELSE cumFails
  /\ lateSuccess' = (lateSuccess \/ state = OPEN)
  /\ UNCHANGED <<now, exclSeen, lastQuery>>
  /\ CBFrame

\* func raised an exception that counts as a failure; it is re-raised.
CallFailure(c) ==
  /\ pc[c] = "calling"
  /\ RecordFailure
  /\ pc' = [pc EXCEPT ![c] = "idle"]
  /\ cumFails' = IF state = CLOSED /\ cumFails < MaxCumFails
                 THEN cumFails + 1 ELSE cumFails
  /\ UNCHANGED <<now, exclSeen, lastQuery, lateSuccess>>
  /\ CBFrame

\* Mutation of CallExcluded: the excluded exception is counted.
CallExcluded_Counted(c) ==
  /\ pc[c] = "calling"
  /\ RecordFailure
  /\ pc' = [pc EXCEPT ![c] = "idle"]
  /\ exclSeen' = exclSeen \cup {state}
  /\ UNCHANGED <<now, cumFails, lastQuery, lateSuccess>>
  /\ CBFrame

\* func raised an exception in config.excluded_exceptions: _record_failure
\* returns before touching the state; the exception is re-raised.
CallExcluded(c) ==
  /\ pc[c] = "calling"
  /\ pc' = [pc EXCEPT ![c] = "idle"]
  /\ exclSeen' = exclSeen \cup {state}
  /\ UNCHANGED <<state, failure_count, success_count, last_failure_time, now,
                 streak, hoSucc>>
  /\ UNCHANGED <<cumFails, lastQuery, lateSuccess>>
  /\ CBFrame

\* The state queries: the properties state, is_closed, is_open and get_status.
Queries == {"state", "is_closed", "is_open", "get_status"}

\* What query q returns: a boolean for is_closed and is_open, the stored
\* state for the property state and (as its "state" entry) for get_status.
QueryResult(q) ==
  CASE q = "is_closed" -> state = CLOSED
    [] q = "is_open" -> state = OPEN
    [] OTHER -> state

\* Mutation of QueryEffect: a query runs the admission check.
QueryEffect_ChecksTimeout == CheckStateEffect

\* What a state query does to the breaker: nothing (the properties and
\* get_status only read self._state, without the lock).
QueryEffect == UNCHANGED <<state, success_count, hoSucc>>

\* Some code reads the breaker through query q.
Query(q) ==
  /\ QueryEffect
  /\ lastQuery' = [q |-> q, r |-> QueryResult(q),
                    late |-> state = OPEN /\ TimeoutPassed]
  /\ UNCHANGED <<failure_count, last_failure_time, now, pc, streak, cumFails,
                 exclSeen, lateSuccess>>
  /\ CBFrame

\* Mutation of Reset: only the state field is set back.
Reset_KeepsCounts ==
  /\ state' = CLOSED
  /\ streak' = 0
  /\ hoSucc' = 0
  /\ cumFails' = 0
  /\ lateSuccess' = FALSE
  /\ UNCHANGED <<failure_count, success_count, last_failure_time>>
  /\ UNCHANGED <<now, pc, exclSeen, lastQuery>>
  /\ CBFrame

\* CircuitBreaker.reset: a fresh CircuitBreakerState.
Reset ==
  /\ state' = CLOSED
  /\ failure_count' = 0
  /\ success_count' = 0
  /\ last_failure_time' = 0
  /\ streak' = 0
  /\ hoSucc' = 0
  /\ cumFails' = 0
  /\ lateSuccess' = FALSE
  /\ UNCHANGED <<now, pc, exclSeen, lastQuery>>
  /\ CBFrame

\* The wall clock advances.
Tick ==
  /\ now < MaxTime
  /\ now' = now + 1
  /\ UNCHANGED <<state, failure_count, success_count, last_failure_time, pc,
                 streak, hoSucc, cumFails, exclSeen, lastQuery,
                 lateSuccess>>
  /\ CBFrame

NextCB ==
  \/ \E c \in Callers : CheckState(c)
  \/ \E c \in Callers : RaiseOpen(c)
  \/ \E c \in Callers : CallSuccess(c)
  \/ \E c \in Callers : CallFailure(c)
  \/ \E c \in Callers : CallExcluded(c)
  \/ Reset
  \/ Tick

\* The breaker with code reading it through the state queries.
NextQuery ==
  \/ \E c \in Callers : CheckState(c)
  \/ \E c \in Callers : RaiseOpen(c)
  \/ \E c \in Callers : CallSuccess(c)
  \/ \E c \in Callers : CallFailure(c)
  \/ \E q \in Queries : Query(q)
  \/ Reset
  \/ Tick

(***************************************************************************)
(*                 NotificationQueue / NotificationService                 *)
(***************************************************************************)

\* Notification.max_retries (dataclass default).
MaxRetries == 3
\* requeue_with_backoff: delay = min(300, 2**retry_count * 10).
BackoffCap == 300
BackoffBase == 10
\* Bounds of the notification models.
MaxNotifs == 4       \* notifications created through NotificationQueue.enqueue
MaxSent == 1         \* notifications created through NotificationService.send
MaxQTime == 1        \* clock bound of the queue model
NqTickStep == 20     \* seconds per clock step of the service model
MaxNqTime == 160     \* clock bound of the service model

NotifIds == 1..MaxNotifs
Dequeuers == {1, 2}

\* NotificationPriority members and their values.
Priorities == {"LOW", "MEDIUM", "HIGH", "CRITICAL"}
PriorityValue(p) ==
  CASE p = "LOW" -> "low"
    [] p = "MEDIUM" -> "medium"
    [] p = "HIGH" -> "high"
    [] p = "CRITICAL" -> "critical"

\* NotificationPriority(value): the member with that value.
PriorityOf(v) == CHOOSE p \in Priorities : PriorityValue(p) = v

\* NotificationChannel members and their values.
Channels == {"TELEGRAM", "EMAIL", "SLACK", "PAGERDUTY", "WEBHOOK"}
ChannelValue(c) ==
  CASE c = "TELEGRAM" -> "telegram"
    [] c = "EMAIL" -> "email"
    [] c = "SLACK" -> "slack"
    [] c = "PAGERDUTY" -> "pagerduty"
    [] c = "WEBHOOK" -> "webhook"

ChannelOf(v) == CHOOSE c \in Channels : ChannelValue(c) = v

\* Notification.to_dict: the serialized record (enum members become their values).
ToDict(n) ==
  [id |-> n.id,
   priority |-> PriorityValue(n.priority),
   channels |-> [i \in 1..Len(n.channels) |-> ChannelValue(n.channels[i])],
   retry_count |-> n.retry_count,
   max_retries |-> n.max_retries]

\* Notification.from_dict.
FromDict(d) ==
  [id |-> d.id,
   priority |-> PriorityOf(d.priority),
   channels |-> [i \in 1..Len(d.channels) |-> ChannelOf(d.channels[i])],
   retry_count |-> d.retry_count,
   max_retries |-> d.max_retries]

\* Mutation of PriorityScore: the score table upside down.
PriorityScore_Reversed(p) ==
  CASE p = "CRITICAL" -> 3
    [] p = "HIGH" -> 2
    [] p = "MEDIUM" -> 1
    [] p = "LOW" -> 0

\* enqueue: priority_scores.
PriorityScore(p) ==
  CASE p = "CRITICAL" -> 0
    [] p = "HIGH" -> 1
    [] p = "MEDIUM" -> 2
    [] p = "LOW" -> 3

\* enqueue: score = priority_scores[priority] + time.time() / 1e10.  The time
\* term is below 1 for every clock value before the year 2286, so the sum
\* orders like the pair <<priority score, time>>.
Score(p, t) == <<PriorityScore(p), t>>

ScoreLess(a, b) == a[1] < b[1] \/ (a[1] = b[1] /\ a[2] < b[2])

\* Alphabetical rank of a channel value inside a JSON string.
ChanRank(v) ==
  CASE v = "email" -> 1
    [] v = "pagerduty" -> 2
    [] v = "slack" -> 3
    [] v = "telegram" -> 4
    [] v = "webhook" -> 5

\* Lexicographic order of two JSON channel lists: at the end of the shorter
\* list "]" meets ",", and "," sorts first.
RECURSIVE ChanListLess(_, _)
ChanListLess(a, b) ==
  IF a = <<>> \/ b = <<>> THEN Len(a) > Len(b)
  ELSE IF Head(a) # Head(b) THEN ChanRank(Head(a)) < ChanRank(Head(b))
  ELSE ChanListLess(Tail(a), Tail(b))

\* Redis orders members of equal score lexicographically by the member string
\* json.dumps(to_dict()): id first, then (equal ids) channels, then retry_count.
MemberLess(m1, m2) ==
  \/ m1.id < m2.id
  \/ m1.id = m2.id /\ ChanListLess(m1.channels, m2.channels)
  \/ m1.id = m2.id /\ m1.channels = m2.channels /\ m1.retry_count < m2.retry_count

EntryLess(e1, e2) ==
  \/ ScoreLess(e1.score, e2.score)
  \/ e1.score = e2.score /\ MemberLess(e1.m, e2.m)

\* redis.zadd(QUEUE_KEY, {member: score}): a member already present only has
\* its score updated.
Zadd(q, m, s) == {e \in q : e.m # m} \cup {[m |-> m, score |-> s]}

\* redis.zrange(QUEUE_KEY, 0, 0) on a non-empty set: the entry of lowest rank.
ZrangeFirst(q) == CHOOSE e \in q : \A f \in q \ {e} : EntryLess(e, f)

\* redis.zrem(QUEUE_KEY, member).
Zrem(q, m) == {e \in q : e.m # m}

\* NotificationService._get_default_channels.
DefaultChannels(p) ==
  IF p = "CRITICAL" THEN <<"TELEGRAM", "PAGERDUTY", "SLACK">>
  ELSE IF p = "HIGH" THEN <<"TELEGRAM", "SLACK">>
  ELSE <<"TELEGRAM">>

\* The channels argument of send: None (defaults) or an explicit list.
NoChannels == <<>>
ChannelArgs == {NoChannels, <<"SLACK">>, <<"TELEGRAM", "SLACK">>}

\* Notification(...) as built by send (ids are md5 digests: unique, in no
\* particular order).
NewNotification(id, p, chans) ==
  [id |-> id,
   priority |-> p,
   channels |-> IF chans = NoChannels THEN DefaultChannels(p) ELSE chans,
   retry_count |-> 0,
   max_retries |-> MaxRetries]

UsedIds == {i \in NotifIds : attempts[i] >= 0}

NQInit ==
  /\ queue = {}
  /\ failed = <<>>
  /\ processed = 0
  /\ nqNow = 0
  /\ nextId = 0
  /\ dq = [p \in Dequeuers |-> [pc |-> "idle", item |-> 0]]
  /\ returned = [i \in NotifIds |-> 0]
  /\ tasks = EmptyBag
  /\ attempts = [i \in NotifIds |-> -1]
  /\ allFailed = [i \in NotifIds |-> TRUE]
  /\ lastDelay = [i \in NotifIds |-> 0]
  /\ delaysOk = [i \in NotifIds |-> TRUE]
  /\ procRunning = TRUE
  /\ shut = "up"
  /\ sentPriority = [i \in NotifIds |-> "none"]
  /\ incrCount = [i \in NotifIds |-> 0]
  /\ chanOk = [i \in NotifIds |-> {}]
  /\ reinvoked = [i \in NotifIds |-> FALSE]
  /\ redelivered = [i \in NotifIds |-> FALSE]
  /\ otherDispatched = FALSE

\* Mutation of EnqueueResult: the member is written whatever the store does.
EnqueueResult_WritesAnyway(q, n, storeOk) ==
  Zadd(q, ToDict(n), Score(n.priority, nqNow))

\* NotificationQueue.enqueue: the state of QUEUE_KEY afterwards.  storeOk is
\* FALSE when Redis is unavailable or zadd raises (enqueue returns False).
EnqueueResult(q, n, storeOk) ==
  IF storeOk THEN Zadd(q, ToDict(n), Score(n.priority, nqNow)) ELSE q

\* NotificationQueue.enqueue: the value returned (no path of it raises).
EnqueueReturn(storeOk) == storeOk

\* A client calls NotificationQueue.enqueue with a new notification.
QEnqueue(id, p, storeOk) ==
  /\ nextId < MaxNotifs
  /\ attempts[id] = -1
  /\ queue' = EnqueueResult(queue, NewNotification(id, p, NoChannels), storeOk)
  /\ attempts' = [attempts EXCEPT ![id] = 0]
  /\ nextId' = nextId + 1
  /\ UNCHANGED <<failed, processed, nqNow, dq, returned, tasks, allFailed,
                 lastDelay, delaysOk>>
  /\ UNCHANGED svVars
  /\ NQFrame

\* NotificationQueue.dequeue, first Redis call: items = zrange(QUEUE_KEY, 0, 0).
\* (On an empty set dequeue returns None and nothing changes.)
DequeueRead(p) ==
  /\ dq[p].pc = "idle"
  /\ queue # {}
  /\ dq' = [dq EXCEPT ![p] = [pc |-> "zrem", item |-> ZrangeFirst(queue).m]]
  /\ UNCHANGED <<queue, failed, processed, nqNow, nextId, returned, tasks,
                 attempts, allFailed, lastDelay, delaysOk>>
  /\ UNCHANGED svVars
  /\ NQFrame

\* NotificationQueue.dequeue, second Redis call: zrem(QUEUE_KEY, item), whose
\* reply is ignored, then return Notification.from_dict(json.loads(item)).
\* after: the position of the caller once it holds the returned notification.
ZremAndReturn(p, after) ==
  /\ dq[p].pc = "zrem"
  /\ queue' = Zrem(queue, dq[p].item)
  /\ dq' = [dq EXCEPT ![p] = after]
  /\ returned' = [returned EXCEPT ![dq[p].item.id] = @ + 1]
  /\ UNCHANGED <<failed, processed, nqNow, nextId, tasks, attempts, allFailed,
                 lastDelay, delaysOk>>
  /\ UNCHANGED svVars
  /\ NQFrame

\* dequeue() returns to the processor loop, which goes on to process the
\* notification.
DequeueRemove(p) ==
  ZremAndReturn(p, [pc |-> "got", item |-> FromDict(dq[p].item)])

\* dequeue() returns to a client that only takes the notification.
ClientDequeueRemove(p) ==
  ZremAndReturn(p, [pc |-> "idle", item |-> 0])

\* NotificationQueue.dequeue when zrem raises: the exception is logged and
\* None is returned; the item stays queued.
DequeueRemoveFails(p) ==
  /\ dq[p].pc = "zrem"
  /\ dq' = [dq EXCEPT ![p] = [pc |-> "idle", item |-> 0]]
  /\ UNCHANGED <<queue, failed, processed, nqNow, nextId, returned, tasks,
                 attempts, allFailed, lastDelay, delaysOk>>
  /\ UNCHANGED svVars
  /\ NQFrame

\* The wall clock of the queue model advances.
QTick ==
  /\ nqNow < MaxQTime
  /\ nqNow' = nqNow + 1
  /\ UNCHANGED <<queue, failed, processed, nextId, dq, returned, tasks,
                 attempts, allFailed, lastDelay, delaysOk>>
  /\ UNCHANGED svVars
  /\ NQFrame

NextQueue ==
  \/ \E id \in NotifIds, p \in Priorities, ok \in BOOLEAN : QEnqueue(id, p, ok)
  \/ \E p \in Dequeuers : DequeueRead(p)
  \/ \E p \in Dequeuers : ClientDequeueRemove(p)
  \/ \E p \in Dequeuers : DequeueRemoveFails(p)
  \/ QTick

(***************************************************************************)
(*        NotificationService: send, processor loop, retry tasks           *)
(***************************************************************************)

SentIds == 1..MaxSent
\* The single background processor (app/main.py starts one start_processor).
Processor == 1

\* Channel handlers that can raise.  _send_telegram cannot:
\* telegram_service.send_message catches and logs every exception itself.
CanRaise(c) == c # "TELEGRAM"

\* The outcomes of one pass over notification.channels: the set of channels
\* whose handler raised.
FailSets(n) ==
  SUBSET {n.channels[i] : i \in {j \in 1..Len(n.channels) : CanRaise(n.channels[j])}}

InSet(S, c) == c \in S

SeqRange(q) == {q[i] : i \in 1..Len(q)}

\* failed_channels, in the order of notification.channels.
FailedChannels(n, F) == SelectSeq(n.channels, LAMBDA c : InSet(F, c))

DispatchTask(n) == [kind |-> "dispatch", n |-> n, wake |-> 0]
BackoffTask(n) == [kind |-> "backoff", n |-> n, wake |-> 0]
SleepTask(n, w) == [kind |-> "sleep", n |-> n, wake |-> w]

OneTask(t) == SetToBag({t})

\* The notifications of other ids that are waiting out a retry delay.
WaitingOthers(id) ==
  {t \in BagToSet(tasks) : t.kind = "sleep" /\ nqNow < t.wake /\ t.n.id # id}

\* NotificationService._process_notification(n) with the handlers of F raising:
\* on failure the channel list is narrowed to the failed channels and a
\* requeue_with_backoff task is created, otherwise PROCESSED_KEY is
\* incremented (incrOk: the Redis call went through).  others: the tasks
\* besides the one running this.
ProcessNotification(n, F, incrOk, others) ==
  /\ attempts' = [attempts EXCEPT ![n.id] = @ + 1]
  /\ allFailed' = [allFailed EXCEPT ![n.id] = @ /\ Len(FailedChannels(n, F)) = Len(n.channels)]
  /\ reinvoked' = [reinvoked EXCEPT ![n.id] =
                      @ \/ (SeqRange(n.channels) \cap chanOk[n.id] # {})]
  /\ redelivered' = [redelivered EXCEPT ![n.id] =
                        @ \/ ((SeqRange(n.channels) \ F) \cap chanOk[n.id] # {})]
  /\ chanOk' = [chanOk EXCEPT ![n.id] = @ \cup (SeqRange(n.channels) \ F)]
  /\ otherDispatched' = (otherDispatched \/ WaitingOthers(n.id) # {})
  /\ IF FailedChannels(n, F) # <<>>
     THEN /\ tasks' = others (+) OneTask(BackoffTask([n EXCEPT !.channels = FailedChannels(n, F)]))
          /\ UNCHANGED <<processed, incrCount>>
     ELSE /\ tasks' = others
          /\ processed' = IF incrOk THEN processed + 1 ELSE processed
          /\ incrCount' = [incrCount EXCEPT ![n.id] = IF incrOk THEN @ + 1 ELSE @]
  /\ UNCHANGED <<procRunning, shut, sentPriority>>

\* Mutation of SendTasks: immediate delivery whatever the priority.
SendTasks_AlwaysImmediate(p, n) == tasks (+) OneTask(DispatchTask(n))

\* send: "if priority == CRITICAL: asyncio.create_task(_process_notification)".
SendTasks(p, n) ==
  IF p = "CRITICAL" THEN tasks (+) OneTask(DispatchTask(n)) ELSE tasks

\* NotificationService.send: build the notification, enqueue it (the value
\* enqueue returns is not looked at), and for a CRITICAL one also create a
\* task running _process_notification on it.
Send(id, p, chans, storeOk) ==
  /\ shut = "up"
  /\ nextId < MaxSent
  /\ attempts[id] = -1
  /\ LET n == NewNotification(id, p, chans) IN
       /\ queue' = EnqueueResult(queue, n, storeOk)
       /\ tasks' = SendTasks(p, n)
  /\ attempts' = [attempts EXCEPT ![id] = 0]
  /\ nextId' = nextId + 1
  /\ sentPriority' = [sentPriority EXCEPT ![id] = p]
  /\ UNCHANGED <<failed, processed, nqNow, dq, returned, allFailed, lastDelay,
                 delaysOk>>
  /\ UNCHANGED <<procRunning, shut, incrCount, chanOk, reinvoked, redelivered, otherDispatched>>
  /\ NQFrame

\* Mutation of AfterProcess: the processor awaits requeue_with_backoff.
AfterProcess_AwaitsRequeue(n, F) ==
  IF FailedChannels(n, F) # <<>>
  THEN [pc |-> "requeue", item |-> n]
  ELSE [pc |-> "idle", item |-> 0]

\* The processor once _process_notification has returned: the retry was
\* handed to asyncio.create_task, so it is back at the top of its loop
\* whatever the handlers did.
AfterProcess(n, F) == [pc |-> "idle", item |-> 0]

\* start_processor: the dequeued notification is processed.
ProcessorDispatch(F, incrOk) ==
  /\ dq[Processor].pc = "got"
  /\ F \in FailSets(dq[Processor].item)
  /\ ProcessNotification(dq[Processor].item, F, incrOk, tasks)
  /\ dq' = [dq EXCEPT ![Processor] = AfterProcess(dq[Processor].item, F)]
  /\ UNCHANGED <<queue, failed, nqNow, nextId, returned, lastDelay, delaysOk>>
  /\ NQFrame

\* The immediate-delivery task of a CRITICAL notification runs.
ImmediateDispatch(t, F, incrOk) ==
  /\ BagIn(t, tasks)
  /\ t.kind = "dispatch"
  /\ F \in FailSets(t.n)
  /\ ProcessNotification(t.n, F, incrOk, tasks (-) OneTask(t))
  /\ UNCHANGED <<queue, failed, nqNow, nextId, dq, returned, lastDelay, delaysOk>>
  /\ NQFrame

RECURSIVE Pow2(_)
Pow2(k) == IF k = 0 THEN 1 ELSE 2 * Pow2(k - 1)

Min(a, b) == IF a <= b THEN a ELSE b

\* Mutation of BackoffDelay: the delay is computed before the increment.
BackoffDelay_BeforeIncrement(retry_count) ==
  Min(BackoffCap, Pow2(retry_count - 1) * BackoffBase)

\* requeue_with_backoff: delay = min(300, 2**retry_count * 10).
BackoffDelay(retry_count) == Min(BackoffCap, Pow2(retry_count) * BackoffBase)

\* NotificationQueue._move_to_failed: lpush(FAILED_KEY, ...); a Redis error is
\* logged and swallowed.
MoveToFailed(n, storeOk) ==
  failed' = IF storeOk THEN <<ToDict(n)>> \o failed ELSE failed

\* NotificationQueue.requeue_with_backoff up to its first await: count the
\* retry, then dead-letter the notification or start sleeping.
BackoffStart(t, storeOk) ==
  /\ BagIn(t, tasks)
  /\ t.kind = "backoff"
  /\ LET n == [t.n EXCEPT !.retry_count = @ + 1] IN
       IF n.retry_count > n.max_retries
       THEN /\ MoveToFailed(n, storeOk)
            /\ tasks' = tasks (-) OneTask(t)
            /\ UNCHANGED <<lastDelay, delaysOk>>
       ELSE /\ tasks' = (tasks (-) OneTask(t))
                          (+) OneTask(SleepTask(n, nqNow + BackoffDelay(n.retry_count)))
            /\ lastDelay' = [lastDelay EXCEPT ![n.id] = BackoffDelay(n.retry_count)]
            /\ delaysOk' = [delaysOk EXCEPT ![n.id] =
                              @ /\ BackoffDelay(n.retry_count) >= lastDelay[n.id]]
            /\ UNCHANGED failed
  /\ UNCHANGED <<queue, processed, nqNow, nextId, dq, returned, attempts, allFailed>>
  /\ UNCHANGED svVars
  /\ NQFrame

\* requeue_with_backoff after asyncio.sleep(delay): enqueue again.
BackoffWake(t, storeOk) ==
  /\ BagIn(t, tasks)
  /\ t.kind = "sleep"
  /\ nqNow >= t.wake
  /\ queue' = EnqueueResult(queue, t.n, storeOk)
  /\ tasks' = tasks (-) OneTask(t)
  /\ UNCHANGED <<failed, processed, nqNow, nextId, dq, returned, attempts,
                 allFailed, lastDelay, delaysOk>>
  /\ UNCHANGED svVars
  /\ NQFrame

\* The wall clock of the service model advances.  A requeue_with_backoff task
\* that was just created runs up to its sleep without awaiting anything, so no
\* clock step passes before it has.
NqTickTo(max) ==
  /\ nqNow < max
  /\ \A t \in BagToSet(tasks) : t.kind # "backoff"
  /\ nqNow' = nqNow + NqTickStep
  /\ UNCHANGED <<queue, failed, processed, nextId, dq, returned, tasks,
                 attempts, allFailed, lastDelay, delaysOk>>
  /\ UNCHANGED svVars
  /\ NQFrame

NqTick == NqTickTo(MaxNqTime)

\* NotificationService.stop_processor: _running = False.
StopProcessor == procRunning' = FALSE

\* task.cancel() on the processor task: CancelledError is raised at the await
\* the loop is suspended in and ends it.  _process_notification catches only
\* Exception, so a notification being dispatched is dropped with no requeue,
\* no processed count and no failed record; an item read but not yet removed
\* stays in the queue.
CancelProcessor ==
  dq' = [dq EXCEPT ![Processor] = [pc |-> "stopped", item |-> 0]]

\* shutdown_event: stop_processor(), stop_consumer() (which never suspends),
\* then cancel and await the background tasks.  The processor task cannot
\* run between the stop and the cancellation.
Shutdown ==
  /\ shut = "up"
  /\ shut' = "down"
  /\ StopProcessor
  /\ CancelProcessor
  /\ UNCHANGED <<queue, failed, processed, nqNow, nextId, returned, tasks,
                 attempts, allFailed, lastDelay, delaysOk>>
  /\ UNCHANGED <<sentPriority, incrCount, chanOk, reinvoked, redelivered, otherDispatched>>
  /\ NQFrame

\* After shutdown_event the event loop is closed: the tasks created by
\* send and _process_notification are in no list that is awaited, so the
\* ones still pending are destroyed.
LoopClose ==
  /\ shut = "down"
  /\ shut' = "closed"
  /\ tasks' = EmptyBag
  /\ UNCHANGED <<queue, failed, processed, nqNow, nextId, dq, returned,
                 attempts, allFailed, lastDelay, delaysOk>>
  /\ UNCHANGED <<procRunning, sentPriority, incrCount, chanOk, reinvoked, redelivered,
                 otherDispatched>>
  /\ NQFrame

NextNotify ==
  \/ \E id \in SentIds, p \in Priorities, ch \in ChannelArgs, ok \in BOOLEAN :
       Send(id, p, ch, ok)
  \/ DequeueRead(Processor)
  \/ DequeueRemove(Processor)
  \/ DequeueRemoveFails(Processor)
  \/ \E F \in SUBSET Channels, ok \in BOOLEAN : ProcessorDispatch(F, ok)
  \/ \E t \in BagToSet(tasks), F \in SUBSET Channels, ok \in BOOLEAN :
       ImmediateDispatch(t, F, ok)
  \/ \E t \in BagToSet(tasks), ok \in BOOLEAN : BackoffStart(t, ok)
  \/ \E t \in BagToSet(tasks), ok \in BOOLEAN : BackoffWake(t, ok)
  \/ NqTick

\* Notifications handed to the queue by clients while the processor retries:
\* the ids and priorities used.
MaxBackoffNotifs == 2
MaxBackoffTime == 40   \* clock bound of this model
BackoffIds == 1..MaxBackoffNotifs
BackoffPriorities == {"HIGH", "CRITICAL"}
Client == 2

\* The processor and its retry tasks next to clients of the queue.
NextBackoff ==
  \/ \E id \in BackoffIds, p \in BackoffPriorities, ok \in BOOLEAN : QEnqueue(id, p, ok)
  \/ \E p \in Dequeuers : DequeueRead(p)
  \/ DequeueRemove(Processor)
  \/ ClientDequeueRemove(Client)
  \/ \E F \in SUBSET Channels, ok \in BOOLEAN : ProcessorDispatch(F, ok)
  \/ \E t \in BagToSet(tasks) : BackoffStart(t, TRUE)
  \/ \E t \in BagToSet(tasks) : BackoffWake(t, TRUE)
  \/ NqTickTo(MaxBackoffTime)

\* The service with its shutdown.
NextShutdown ==
  \/ NextNotify
  \/ Shutdown
  \/ LoopClose

(***************************************************************************)
(*                 StreamingService: publish and consume                   *)
(***************************************************************************)

\* StreamingService.BATCH_SIZE (the count of one XREADGROUP).
BatchSize == 100
\* Bounds of the stream model.
MaxEntries == 3
MaxHandlers == 2      \* registered handlers in the stream model
MaxRegistered == 3    \* registered handlers in the model of repeated starts
MaxFaults == 1
MaxReadsCounted == 2

Entries == 1..MaxEntries
Consumers == {"consumer-1", "consumer-2"}
HandlerSlots == 1..MaxRegistered
NoConsumer == "none"

\* The handler argument of start_consumer: None or a callable.
NoHandler == "None"
HandlerArgs == {NoHandler, "handler"}

IdleConsumer == [pc |-> "stopped", batch |-> <<>>, h |-> 1]

StreamInit ==
  /\ stream = 0
  /\ lastDelivered = 0
  /\ pel = [e \in Entries |-> NoConsumer]
  /\ handlers = <<"default_log_handler">>
  /\ running = FALSE
  /\ cons = [c \in Consumers |-> IdleConsumer]
  /\ invoked = [e \in Entries |-> [i \in HandlerSlots |-> 0]]
  /\ ackCount = [e \in Entries |-> 0]
  /\ ackedWith = [e \in Entries |-> 0]
  /\ faults = 0
  /\ emptyReads = [c \in Consumers |-> FALSE]
  /\ raisedOn = [e \in Entries |-> FALSE]
  /\ readsAfterStop = [c \in Consumers |-> 0]

\* publish_log: XADD appends one entry.
PublishLog ==
  /\ stream < MaxEntries
  /\ stream' = stream + 1
  /\ UNCHANGED <<lastDelivered, pel, handlers, running, cons, invoked, ackCount,
                 ackedWith, faults>>
  /\ UNCHANGED <<emptyReads, raisedOn, readsAfterStop>>
  /\ STFrame

\* StreamingService.add_handler.
AddHandler(hs, h) == Append(hs, h)

\* start_consumer up to its first XREADGROUP: initialize() succeeded, the
\* handler argument (if any) is registered, _running is set, "while
\* self._running" is passed and the read is issued.
StartConsumerUpTo(c, h, max) ==
  /\ cons[c].pc = "stopped"
  /\ h # NoHandler => Len(handlers) < max
  /\ handlers' = IF h # NoHandler THEN AddHandler(handlers, h) ELSE handlers
  /\ running' = TRUE
  /\ cons' = [cons EXCEPT ![c] = [pc |-> "read", batch |-> <<>>, h |-> 1]]
  /\ readsAfterStop' = [k \in Consumers |-> 0]
  /\ UNCHANGED <<stream, lastDelivered, pel, invoked, ackCount, ackedWith, faults>>
  /\ UNCHANGED <<emptyReads, raisedOn>>
  /\ STFrame

StartConsumer(c, h) == StartConsumerUpTo(c, h, MaxHandlers)

\* Mutation of NewEntries: reading from id "0" instead of ">".
NewEntries_FromStart == [i \in 1..Min(stream, BatchSize) |-> i]

\* XREADGROUP group consumer {STREAM_KEY: ">"} count=BATCH_SIZE: the entries
\* never delivered to the group so far, at most BATCH_SIZE of them.
NewEntries ==
  [i \in 1..Min(stream - lastDelivered, BatchSize) |-> lastDelivered + i]

\* The reads that returned to consumer c since _running was cleared, once
\* one more has (counted up to MaxReadsCounted).
ReadReturned(c) ==
  [readsAfterStop EXCEPT ![c] = IF running THEN @ ELSE Min(@ + 1, MaxReadsCounted)]

\* The XREADGROUP the consumer is suspended in returns a non-empty batch: the
\* entries enter the pending list under this consumer.  (_running is not
\* looked at here: it was tested before the read was issued.)
ConsumerRead(c) ==
  /\ cons[c].pc = "read"
  /\ NewEntries # <<>>
  /\ lastDelivered' = lastDelivered + Len(NewEntries)
  /\ pel' = [e \in Entries |-> IF e \in SeqRange(NewEntries) THEN c ELSE pel[e]]
  /\ cons' = [cons EXCEPT ![c] = [pc |-> "entry", batch |-> NewEntries, h |-> 1]]
  /\ readsAfterStop' = ReadReturned(c)
  /\ UNCHANGED <<stream, handlers, running, invoked, ackCount, ackedWith, faults>>
  /\ UNCHANGED <<emptyReads, raisedOn>>
  /\ STFrame

\* The XREADGROUP returns nothing within BLOCK_MS ("if not messages:
\* continue"): back to the test of the loop.
ConsumerPoll(c) ==
  /\ cons[c].pc = "read"
  /\ NewEntries = <<>>
  /\ emptyReads' = [emptyReads EXCEPT ![c] = ~@]
  /\ cons' = [cons EXCEPT ![c] = [pc |-> "top", batch |-> <<>>, h |-> 1]]
  /\ readsAfterStop' = ReadReturned(c)
  /\ UNCHANGED raisedOn
  /\ UNCHANGED <<stream, lastDelivered, pel, handlers, running, invoked,
                 ackCount, ackedWith, faults>>
  /\ STFrame

\* "while self._running" is true: the next XREADGROUP is issued.
ConsumerLoop(c) ==
  /\ cons[c].pc = "top"
  /\ running
  /\ cons' = [cons EXCEPT ![c] = [pc |-> "read", batch |-> <<>>, h |-> 1]]
  /\ UNCHANGED <<stream, lastDelivered, pel, handlers, running, invoked,
                 ackCount, ackedWith, faults>>
  /\ UNCHANGED <<emptyReads, raisedOn, readsAfterStop>>
  /\ STFrame

\* "while self._running" is false: the loop ends.
ConsumerExit(c) ==
  /\ cons[c].pc = "top"
  /\ ~running
  /\ cons' = [cons EXCEPT ![c] = IdleConsumer]
  /\ UNCHANGED <<stream, lastDelivered, pel, handlers, running, invoked,
                 ackCount, ackedWith, faults>>
  /\ UNCHANGED <<emptyReads, raisedOn, readsAfterStop>>
  /\ STFrame

\* Mutation of AfterHandler: a handler that raises ends the entry.
AfterHandler_RaiseEndsEntry(k, raises) ==
  IF raises
  THEN (IF Len(k.batch) > 1
        THEN [pc |-> "entry", batch |-> Tail(k.batch), h |-> 1]
        ELSE [pc |-> "top", batch |-> <<>>, h |-> 1])
  ELSE [k EXCEPT !.h = @ + 1]

\* The consumer's position after a handler ran on the current entry: the
\* inner try/except logs what the handler raised ("Handler error") and the
\* for loop goes on to the next handler.
AfterHandler(k, raises) == [k EXCEPT !.h = @ + 1]

\* "for h in self._handlers": the next handler is called on the current entry
\* and returns or raises an Exception.
InvokeHandler(c, raises) ==
  /\ cons[c].pc = "entry"
  /\ cons[c].h <= Len(handlers)
  /\ invoked' = [invoked EXCEPT ![Head(cons[c].batch)][cons[c].h] = @ + 1]
  /\ raisedOn' = [raisedOn EXCEPT ![Head(cons[c].batch)] = @ \/ raises]
  /\ cons' = [cons EXCEPT ![c] = AfterHandler(cons[c], raises)]
  /\ UNCHANGED <<stream, lastDelivered, pel, handlers, running, ackCount,
                 ackedWith, faults>>
  /\ UNCHANGED <<emptyReads, readsAfterStop>>
  /\ STFrame

\* The consumer's position after the current entry: the next entry of the
\* batch, or the test of the loop.
NextEntry(k) ==
  IF Len(k.batch) > 1
  THEN [pc |-> "entry", batch |-> Tail(k.batch), h |-> 1]
  ELSE [pc |-> "top", batch |-> <<>>, h |-> 1]

\* All handlers ran: XACK of the current entry.
AckEntry(c) ==
  /\ cons[c].pc = "entry"
  /\ cons[c].h > Len(handlers)
  /\ pel' = [pel EXCEPT ![Head(cons[c].batch)] = NoConsumer]
  /\ ackCount' = [ackCount EXCEPT ![Head(cons[c].batch)] = @ + 1]
  /\ ackedWith' = [ackedWith EXCEPT ![Head(cons[c].batch)] = Len(handlers)]
  /\ cons' = [cons EXCEPT ![c] = NextEntry(cons[c])]
  /\ UNCHANGED <<stream, lastDelivered, handlers, running, invoked, faults>>
  /\ UNCHANGED <<emptyReads, raisedOn, readsAfterStop>>
  /\ STFrame

\* XACK raises: "Error processing entry" is logged, the entry stays pending
\* and the batch goes on.
AckFails(c) ==
  /\ cons[c].pc = "entry"
  /\ cons[c].h > Len(handlers)
  /\ faults < MaxFaults
  /\ faults' = faults + 1
  /\ cons' = [cons EXCEPT ![c] = NextEntry(cons[c])]
  /\ UNCHANGED <<stream, lastDelivered, pel, handlers, running, invoked,
                 ackCount, ackedWith>>
  /\ UNCHANGED <<emptyReads, raisedOn, readsAfterStop>>
  /\ STFrame

\* The consumer task is cancelled (or its process dies) inside a batch:
\* CancelledError leaves the loop; the rest of the batch stays pending.
CancelConsumer(c) ==
  /\ cons[c].pc = "entry"
  /\ faults < MaxFaults
  /\ faults' = faults + 1
  /\ cons' = [cons EXCEPT ![c] = IdleConsumer]
  /\ UNCHANGED <<stream, lastDelivered, pel, handlers, running, invoked,
                 ackCount, ackedWith>>
  /\ UNCHANGED <<emptyReads, raisedOn, readsAfterStop>>
  /\ STFrame

\* Mutation of StopEffect: stop_consumer cancels the consumer tasks.
StopEffect_CancelsTasks == [c \in Consumers |-> IdleConsumer]

\* stop_consumer on the consumers: "if self._consumer_task" is false, since
\* _consumer_task is never assigned, so no task is cancelled.
StopEffect == cons

\* stop_consumer: _running = False.
StopConsumer ==
  /\ running
  /\ running' = FALSE
  /\ cons' = StopEffect
  /\ UNCHANGED <<stream, lastDelivered, pel, handlers, invoked, ackCount,
                 ackedWith, faults>>
  /\ UNCHANGED <<emptyReads, raisedOn, readsAfterStop>>
  /\ STFrame

ConsumerStep(c) ==
  \/ ConsumerRead(c)
  \/ ConsumerPoll(c)
  \/ ConsumerLoop(c)
  \/ ConsumerExit(c)
  \/ \E raises \in BOOLEAN : InvokeHandler(c, raises)
  \/ AckEntry(c)

NextStream ==
  \/ PublishLog
  \/ \E c \in Consumers, h \in HandlerArgs : StartConsumer(c, h)
  \/ \E c \in Consumers : ConsumerRead(c)
  \/ \E c \in Consumers : ConsumerPoll(c)
  \/ \E c \in Consumers : ConsumerLoop(c)
  \/ \E c \in Consumers : ConsumerExit(c)
  \/ \E c \in Consumers, raises \in BOOLEAN : InvokeHandler(c, raises)
  \/ \E c \in Consumers : AckEntry(c)
  \/ \E c \in Consumers : AckFails(c)
  \/ \E c \in Consumers : CancelConsumer(c)
  \/ StopConsumer

\* Consumers started one after the other with the same handler argument,
\* every read, handler and XACK going through.
NextConsumers ==
  \/ PublishLog
  \/ \E c \in Consumers : StartConsumerUpTo(c, "handler", MaxRegistered)
  \/ \E c \in Consumers : ConsumerRead(c)
  \/ \E c \in Consumers : ConsumerPoll(c)
  \/ \E c \in Consumers : ConsumerLoop(c)
  \/ \E c \in Consumers : ConsumerExit(c)
  \/ \E c \in Consumers : InvokeHandler(c, FALSE)
  \/ \E c \in Consumers : AckEntry(c)
  \/ StopConsumer

(***************************************************************************)
(*            StreamingService: buffer_log and _flush_buffer               *)
(***************************************************************************)

\* StreamingService._flush_interval (seconds).
FlushInterval == 5
\* Bounds of the buffer model.
BufTickStep == 6     \* seconds per clock step
MaxBufTime == 6
MaxBuffered == 102   \* buffer_log calls

\* StreamingService.__init__: empty buffer, _last_flush = time.time().
BufferInit ==
  /\ buffer = 0
  /\ last_flush = 0
  /\ bufNow = 0
  /\ buffered = 0
  /\ flushes = 0
  /\ lastFlushLen = 0
  /\ lastBatch = [from |-> 1, to |-> 0, ok |-> TRUE, logged |-> FALSE]

\* Mutation of ShouldFlush: the size test is strict.
ShouldFlush_SizeStrict(len) ==
  len > BatchSize \/ (bufNow - last_flush) > FlushInterval

\* buffer_log: "len(self._buffer) >= BATCH_SIZE or
\* (time.time() - self._last_flush) > self._flush_interval".
ShouldFlush(len) ==
  len >= BatchSize \/ (bufNow - last_flush) > FlushInterval

\* publish_batch: the stream after the pipeline of XADDs; nothing is added
\* when Redis is unavailable or the pipeline raises (ok = FALSE).
PublishBatch(n, ok) == IF ok THEN stream + n ELSE stream

\* Mutation of FailureLogged: only the debug line of _flush_buffer.
FailureLogged_DebugOnly(ok) == FALSE

\* A record at WARNING or above is written when a batch is not published:
\* "Failed to publish batch" when the pipeline raises, and the record of
\* _get_redis when there is no client (publish_batch itself returns 0 then).
FailureLogged(ok) == ~ok

\* _flush_buffer on a buffer of len entries: the buffer is copied and cleared,
\* _last_flush is set, then the copy is published.
FlushBuffer(len, ok) ==
  IF len = 0
  THEN UNCHANGED <<buffer, last_flush, stream, flushes, lastFlushLen, lastBatch>>
  ELSE /\ buffer' = 0
       /\ last_flush' = bufNow
       /\ stream' = PublishBatch(len, ok)
       /\ flushes' = flushes + 1
       /\ lastFlushLen' = len
       /\ lastBatch' = [from |-> buffered' - len + 1, to |-> buffered',
                        ok |-> ok, logged |-> FailureLogged(ok)]

\* buffer_log under _buffer_lock (held across the flush): append, then flush
\* when the buffer is full or the interval has elapsed.
BufferLog(ok) ==
  /\ buffered < MaxBuffered
  /\ buffered' = buffered + 1
  /\ IF ShouldFlush(buffer + 1)
     THEN FlushBuffer(buffer + 1, ok)
     ELSE /\ buffer' = buffer + 1
          /\ UNCHANGED <<last_flush, stream, flushes, lastFlushLen, lastBatch>>
  /\ UNCHANGED bufNow
  /\ BFFrame

\* Time passes; no timer or background task flushes the buffer.
BufTick ==
  /\ bufNow + BufTickStep <= MaxBufTime
  /\ bufNow' = bufNow + BufTickStep
  /\ UNCHANGED <<buffer, last_flush, buffered, flushes, lastFlushLen, stream,
                 lastBatch>>
  /\ BFFrame

NextBuffer ==
  \/ \E ok \in BOOLEAN : BufferLog(ok)
  \/ BufTick

(***************************************************************************)
(*                            AnomalyDetector                              *)
(***************************************************************************)

\* AnomalyDetector.__init__: _error_window and _error_threshold.
ErrorWindow == 60
ErrorThreshold == 10
\* Bounds of the detector model.
MaxErrs == 11        \* error-level entries counted per service and window
AdTickStep == 31     \* seconds per clock step
MaxAdTime == 124

Services == {"api-gateway", "X"}
Levels == {"error", "ERROR", "Critical", "fatal", "info", "WARNING"}

\* str.lower on the level strings above.
Lower(l) ==
  CASE l = "ERROR" -> "error"
    [] l = "Critical" -> "critical"
    [] l = "WARNING" -> "warning"
    [] OTHER -> l

IsErrorLevel(l) == Lower(l) \in {"error", "critical", "fatal"}

\* The service whose entries are followed over two clock steps.
Watched == "api-gateway"

\* Nothing processed in this clock step or the one before.
NoSpan == [prev |-> 0, now |-> 0, alertPrev |-> FALSE, alertNow |-> FALSE]

ADInit ==
  /\ error_counts = [s \in Services |-> 0]
  /\ alerted_services = {}
  /\ last_reset = 0
  /\ adNow = 0
  /\ telegramAlerts = [s \in Services |-> 0]
  /\ winErrs = [s \in Services |-> 0]
  /\ winAlerts = [s \in Services |-> 0]
  /\ span = NoSpan

\* Mutation of WindowElapsed: the reset comes a window late.
WindowElapsed_Late == adNow - last_reset > 2 * ErrorWindow

\* process_log: "Reset counters every minute".
WindowElapsed == adNow - last_reset > ErrorWindow

\* Mutation of ShouldAlert: no look at _alerted_services.
ShouldAlert_NoDedup(count, service, alerted) == count >= ErrorThreshold

\* process_log: the threshold check that decides on _trigger_alert.
ShouldAlert(count, service, alerted) ==
  count >= ErrorThreshold /\ service \notin alerted

\* AnomalyDetector.process_log(log) together with the _trigger_alert it may
\* call, which hands one message to telegram_service.send_message (a delivery
\* error is logged and swallowed there) and touches no notification queue.
ProcessLogBody(service, level) ==
  LET counts0 == IF WindowElapsed THEN [s \in Services |-> 0] ELSE error_counts
      alerted0 == IF WindowElapsed THEN {} ELSE alerted_services
      wErrs0 == IF WindowElapsed THEN [s \in Services |-> 0] ELSE winErrs
      wAlerts0 == IF WindowElapsed THEN [s \in Services |-> 0] ELSE winAlerts
      count == counts0[service] + 1
  IN
  /\ IsErrorLevel(level) => counts0[service] < MaxErrs
  /\ last_reset' = IF WindowElapsed THEN adNow ELSE last_reset
  /\ IF IsErrorLevel(level)
     THEN /\ error_counts' = [counts0 EXCEPT ![service] = count]
          /\ winErrs' = [wErrs0 EXCEPT ![service] = @ + 1]
          /\ span' = IF service = Watched
                      THEN [span EXCEPT !.now = Min(@ + 1, ErrorThreshold),
                                        !.alertNow =
                                           @ \/ ShouldAlert(count, service, alerted0)]
                      ELSE span
          /\ IF ShouldAlert(count, service, alerted0)
             THEN /\ alerted_services' = alerted0 \cup {service}
                  /\ telegramAlerts' = [telegramAlerts EXCEPT ![service] = 1]
                  /\ winAlerts' = [wAlerts0 EXCEPT ![service] = @ + 1]
             ELSE /\ alerted_services' = alerted0
                  /\ winAlerts' = wAlerts0
                  /\ UNCHANGED telegramAlerts
     ELSE /\ error_counts' = counts0
          /\ alerted_services' = alerted0
          /\ winErrs' = wErrs0
          /\ winAlerts' = wAlerts0
          /\ UNCHANGED <<telegramAlerts, span>>
  /\ UNCHANGED adNow
  /\ ADFrame

\* process_log called on one consumed entry, seen from outside the consumer.
ProcessLog(service, level) ==
  /\ ProcessLogBody(service, level)
  /\ UNCHANGED alVars

\* The wall clock of the detector model advances.
AdTick ==
  /\ adNow < MaxAdTime
  /\ adNow' = adNow + AdTickStep
  /\ span' = [prev |-> span.now, now |-> 0,
               alertPrev |-> span.alertNow, alertNow |-> FALSE]
  /\ UNCHANGED <<error_counts, alerted_services, last_reset, telegramAlerts,
                 winErrs, winAlerts>>
  /\ UNCHANGED alVars
  /\ ADFrame

NextAD ==
  \/ \E s \in Services, l \in Levels : ProcessLog(s, l)
  \/ AdTick

\* process_log decided on _trigger_alert for this entry.
AlertsOn(service, level) ==
  /\ IsErrorLevel(level)
  /\ ShouldAlert((IF WindowElapsed THEN 0 ELSE error_counts[service]) + 1, service,
                 IF WindowElapsed THEN {} ELSE alerted_services)

AlertInit ==
  /\ alPc = "read"
  /\ alDelivery = "none"

\* start_consumer awaits default_log_handler(log), which awaits
\* anomaly_detector.process_log(log).  Without an alert process_log returns;
\* with one it awaits _trigger_alert, which awaits
\* telegram_service.send_message: the consumer coroutine is suspended until
\* the HTTP request to Telegram ends.
HandleEntry(service, level) ==
  /\ alPc = "read"
  /\ ProcessLogBody(service, level)
  /\ IF AlertsOn(service, level)
     THEN alPc' = "alert" /\ alDelivery' = "inflight"
     ELSE alPc' = "ack" /\ UNCHANGED alDelivery

\* The request to Telegram ends (delivered, refused or failed: send_message
\* swallows every error); _trigger_alert and process_log return.
DeliveryEnds ==
  /\ alPc = "alert"
  /\ alPc' = "ack"
  /\ alDelivery' = "done"
  /\ UNCHANGED adVars
  /\ ADFrame

\* The handlers returned: XACK, and the consumer goes on to the next entry.
AckAfterHandler ==
  /\ alPc = "ack"
  /\ alPc' = "read"
  /\ UNCHANGED alDelivery
  /\ UNCHANGED adVars
  /\ ADFrame

NextAlert ==
  \/ \E s \in Services, l \in Levels : HandleEntry(s, l)
  \/ DeliveryEnds
  \/ AckAfterHandler
  \/ AdTick

(***************************************************************************)
(*        Named breakers (CircuitBreaker._instances) and call sites        *)
(***************************************************************************)

\* The breakers created when app/utils/circuit_breaker.py is imported, and a
\* name that only later code constructs.
BreakerNames == {"openai", "ollama", "elasticsearch"}
CustomName == "custom"
AllNames == BreakerNames \cup {CustomName}
\* The names constructed again by later code.
HolderNames == {"openai", CustomName}
\* Code paths that construct a breaker by name and call through it.
Holders == {"h1", "h2"}
\* Bounds of the model of the named breakers.
ProvTickStep == 30
MaxProvTime == 60
MaxObjects == 5

Config(ft, to, st) ==
  [failure_threshold |-> ft, timeout |-> to, success_threshold |-> st]

\* CircuitBreakerConfig defaults.
DefaultConfig == Config(5, 30, 2)

\* The configurations of the pre-configured breakers.
PreConfig(name) ==
  CASE name = "openai" -> Config(3, 60, 2)
    [] name = "ollama" -> Config(5, 30, 1)
    [] OTHER -> Config(5, 30, 2)

\* CircuitBreaker.__init__ on a fresh instance.
NewBreaker(name, cfg) ==
  [name |-> name, config |-> cfg, state |-> CLOSED, failure_count |-> 0,
   success_count |-> 0, last_failure_time |-> 0]

\* Mutation of Construct: every construction makes a new instance.
Construct_AlwaysFresh(name, cfg) ==
  [id |-> Len(objects) + 1,
   objects |-> Append(objects, NewBreaker(name, cfg)),
   instances |-> [instances EXCEPT ![name] = Len(objects) + 1]]

\* CircuitBreaker(name, config): __new__ returns the instance registered under
\* the name, creating and registering it first when there is none; __init__
\* returns at once on an initialized instance (its config argument is ignored).
Construct(name, cfg) ==
  IF instances[name] = 0
  THEN [id |-> Len(objects) + 1,
        objects |-> Append(objects, NewBreaker(name, cfg)),
        instances |-> [instances EXCEPT ![name] = Len(objects) + 1]]
  ELSE [id |-> instances[name], objects |-> objects, instances |-> instances]

IdleRequest == [pc |-> "idle", kind |-> "none", p |-> "none", s |-> "none"]

\* The module globals openai_breaker, ollama_breaker, elasticsearch_breaker.
ProvInit ==
  /\ objects = <<NewBreaker("openai", PreConfig("openai")),
                 NewBreaker("ollama", PreConfig("ollama")),
                 NewBreaker("elasticsearch", PreConfig("elasticsearch"))>>
  /\ instances = [n \in AllNames |->
                    CASE n = "openai" -> 1
                      [] n = "ollama" -> 2
                      [] n = "elasticsearch" -> 3
                      [] OTHER -> 0]
  /\ held = [h \in Holders |-> 0]
  /\ heldName = [h \in Holders |-> "none"]
  /\ provNow = 0
  /\ req = IdleRequest
  /\ lastDone = [kind |-> "none", p |-> "none", s |-> "none", result |-> "none"]

\* CircuitBreaker.is_open: the stored state only, no look at the timeout.
BIsOpen(b) == b.state = OPEN

\* CircuitBreaker._check_state on instance b: whether the request is allowed,
\* and the instance afterwards.
BCheckState(b) ==
  IF b.state = CLOSED THEN [allowed |-> TRUE, b |-> b]
  ELSE IF b.state = OPEN
  THEN IF provNow - b.last_failure_time >= b.config.timeout
       THEN [allowed |-> TRUE,
             b |-> [b EXCEPT !.state = HALF_OPEN, !.success_count = 0]]
       ELSE [allowed |-> FALSE, b |-> b]
  ELSE [allowed |-> TRUE, b |-> b]

\* CircuitBreaker._record_success on instance b.
BRecordSuccess(b) ==
  IF b.state = HALF_OPEN
  THEN IF b.success_count + 1 >= b.config.success_threshold
       THEN [b EXCEPT !.success_count = @ + 1, !.state = CLOSED, !.failure_count = 0]
       ELSE [b EXCEPT !.success_count = @ + 1]
  ELSE IF b.state = CLOSED THEN [b EXCEPT !.failure_count = 0]
  ELSE b

\* CircuitBreaker._record_failure on instance b (a counted exception).
BRecordFailure(b) ==
  LET c == [b EXCEPT !.failure_count = @ + 1, !.last_failure_time = provNow] IN
    IF b.state = HALF_OPEN THEN [c EXCEPT !.state = OPEN]
    ELSE IF b.state = CLOSED /\ c.failure_count >= b.config.failure_threshold
    THEN [c EXCEPT !.state = OPEN]
    ELSE c

\* CircuitBreaker.call(func) on instance b, func succeeding (ok) or raising:
\* "open" stands for CircuitBreakerOpenError.
BCall(b, ok) ==
  LET chk == BCheckState(b) IN
    IF ~chk.allowed THEN [outcome |-> "open", b |-> chk.b]
    ELSE IF ok THEN [outcome |-> "ok", b |-> BRecordSuccess(chk.b)]
    ELSE [outcome |-> "failed", b |-> BRecordFailure(chk.b)]

\* A call site: "if not breaker.is_open: await breaker.call(...)"; an open
\* breaker is skipped without calling it.
GuardedCall(b, ok) ==
  IF BIsOpen(b) THEN [outcome |-> "skipped", b |-> b] ELSE BCall(b, ok)

RequestKinds == {"llm", "es"}

\* The breaker a request tries first.
PrimaryName(kind) == IF kind = "llm" THEN "openai" ELSE "elasticsearch"

\* analyze_logs_with_llm (kind "llm") or collect_logs_from_elasticsearch
\* (kind "es") is called.
StartRequest(kind) ==
  /\ req.pc = "idle"
  /\ req' = [pc |-> "primary", kind |-> kind, p |-> "none", s |-> "none"]
  /\ UNCHANGED <<instances, objects, held, heldName, provNow, lastDone>>
  /\ PVFrame

\* The primary provider is tried through its breaker.  _call_llm_with_fallback
\* goes on to the fallback unless the call returned; the Elasticsearch call
\* site has no fallback.
PrimaryAttempt(ok) ==
  /\ req.pc = "primary"
  /\ LET i == instances[PrimaryName(req.kind)]
         r == GuardedCall(objects[i], ok)
     IN /\ objects' = [objects EXCEPT ![i] = r.b]
        /\ req' = [req EXCEPT !.p = r.outcome,
                              !.pc = IF r.outcome # "ok" /\ req.kind = "llm"
                                     THEN "secondary" ELSE "return"]
  /\ UNCHANGED <<instances, held, heldName, provNow, lastDone>>
  /\ PVFrame

\* _call_llm_with_fallback: the Ollama fallback through ollama_breaker
\* (client: _get_ollama_client() returned a client).
SecondaryAttempt(ok, client) ==
  /\ req.pc = "secondary"
  /\ IF client
     THEN LET i == instances["ollama"]
              r == GuardedCall(objects[i], ok)
          IN /\ objects' = [objects EXCEPT ![i] = r.b]
             /\ req' = [req EXCEPT !.s = r.outcome, !.pc = "return"]
     ELSE /\ req' = [req EXCEPT !.s = "noclient", !.pc = "return"]
          /\ UNCHANGED objects
  /\ UNCHANGED <<instances, held, heldName, provNow, lastDone>>
  /\ PVFrame

\* _call_llm_with_fallback: the response text, or "raise" (last_error or
\* RuntimeError) when no provider answered.
CallLLMResult(p, s) == IF p = "ok" \/ s = "ok" THEN "text" ELSE "raise"

\* Mutation of AnalyzeLogsResult: the exception of the LLM call propagates.
AnalyzeLogsResult_Propagates(r, parseOk) ==
  IF r = "raise" THEN "exception"
  ELSE IF parseOk THEN "ok" ELSE "degraded"

\* analyze_logs_with_llm: every exception of the LLM call, and a response that
\* is not JSON, end in a placeholder LogAnalysisResult.
AnalyzeLogsResult(r, parseOk) ==
  IF r = "raise" THEN "degraded"
  ELSE IF parseOk THEN "ok" ELSE "degraded"

\* collect_logs_from_elasticsearch: the logs, or [] when the breaker is open or
\* the call failed.
CollectLogsResult(p) == IF p = "ok" THEN "ok" ELSE "degraded"

\* The caller-facing operation returns.
CallerReturn(parseOk) ==
  /\ req.pc = "return"
  /\ lastDone' = [kind |-> req.kind, p |-> req.p, s |-> req.s,
                  result |-> IF req.kind = "llm"
                             THEN AnalyzeLogsResult(CallLLMResult(req.p, req.s), parseOk)
                             ELSE CollectLogsResult(req.p)]
  /\ req' = IdleRequest
  /\ UNCHANGED <<instances, objects, held, heldName, provNow>>
  /\ PVFrame

\* Some code path runs CircuitBreaker(name) once (a module-level binding) and
\* keeps the returned instance.
ConstructBy(h, name) ==
  /\ heldName[h] = "none"
  /\ LET c == Construct(name, DefaultConfig) IN
       /\ Len(c.objects) <= MaxObjects
       /\ objects' = c.objects
       /\ instances' = c.instances
       /\ held' = [held EXCEPT ![h] = c.id]
  /\ heldName' = [heldName EXCEPT ![h] = name]
  /\ UNCHANGED <<provNow, req, lastDone>>
  /\ PVFrame

\* That code path calls a protected function through its instance
\* (breaker.call, or the decorator).
HolderCall(h, ok) ==
  /\ held[h] # 0
  /\ objects' = [objects EXCEPT ![held[h]] = BCall(@, ok).b]
  /\ UNCHANGED <<instances, held, heldName, provNow, req, lastDone>>
  /\ PVFrame

\* time.time() advances.
ProvTick ==
  /\ provNow + ProvTickStep <= MaxProvTime
  /\ provNow' = provNow + ProvTickStep
  /\ UNCHANGED <<instances, objects, held, heldName, req, lastDone>>
  /\ PVFrame

NextProviders ==
  \/ \E k \in RequestKinds : StartRequest(k)
  \/ \E ok \in BOOLEAN : PrimaryAttempt(ok)
  \/ \E ok \in BOOLEAN, client \in BOOLEAN : SecondaryAttempt(ok, client)
  \/ \E parseOk \in BOOLEAN : CallerReturn(parseOk)
  \/ ProvTick

\* Code paths constructing breakers by name and calling through them.
NextRegistry ==
  \/ \E h \in Holders, n \in HolderNames : ConstructBy(h, n)
  \/ \E h \in Holders, ok \in BOOLEAN : HolderCall(h, ok)
  \/ ProvTick

(***************************************************************************)
(*             NotificationService: the channel handlers                   *)
(***************************************************************************)

\* Channel lists given to _process_notification.
HChannelLists ==
  {DefaultChannels(p) : p \in Priorities}
    \cup {<<"EMAIL">>, <<"EMAIL", "SLACK">>, <<"SLACK", "EMAIL", "TELEGRAM">>,
          <<"PAGERDUTY", "WEBHOOK">>}

\* Mutation of HandlerOutcome: a handler without its settings raises.
HandlerOutcome_AbsentRaises(c, cfg, down) ==
  IF c = "TELEGRAM" THEN (IF c \in down \/ c \notin cfg THEN "swallowed" ELSE "sent")
  ELSE IF c \notin cfg THEN "raised"
  ELSE IF c \in down THEN "raised"
  ELSE "sent"

\* How the handler of channel c ends, given the channels whose settings are
\* present (cfg) and those whose transport fails (down).
\*   _send_email, _send_slack, _send_pagerduty, _send_webhook: return at once
\*   ("skipped") without their settings, otherwise raise on a transport error.
\*   _send_telegram: no test of its settings; telegram_service.send_message
\*   catches every exception and logs a non-200 reply, so the handler returns
\*   normally ("swallowed") on a failed delivery.
HandlerOutcome(c, cfg, down) ==
  IF c = "TELEGRAM" THEN (IF c \in down \/ c \notin cfg THEN "swallowed" ELSE "sent")
  ELSE IF c \notin cfg THEN "skipped"
  ELSE IF c \in down THEN "raised"
  ELSE "sent"

\* The channels of chans whose handler raises.
RaisingChannels(chans, cfg, down) ==
  {c \in SeqRange(chans) : HandlerOutcome(c, cfg, down) = "raised"}

NoPass ==
  [channels |-> <<>>, down |-> {}, outcome |-> <<>>,
   failed_channels |-> <<>>, requeued |-> <<>>, counted |-> FALSE]

\* _process_notification over the channel list chans: every channel's handler
\* is invoked in order; the channels whose handler raised are requeued,
\* otherwise the notification counts as processed.
PassResult(chans, cfg, down) ==
  LET fc == FailedChannels([channels |-> chans], RaisingChannels(chans, cfg, down)) IN
    [channels |-> chans, down |-> down \cap SeqRange(chans),
     outcome |-> [i \in 1..Len(chans) |-> HandlerOutcome(chans[i], cfg, down)],
     failed_channels |-> fc,
     requeued |-> fc,
     counted |-> fc = <<>>]

HandlersInit ==
  /\ hCfg = {}
  /\ hDown = {}
  /\ hOut = NoPass

\* The deployment provides or lacks the settings of channel c
\* (config.settings reads the environment once, when the process starts).
Configure(c) ==
  /\ hOut = NoPass
  /\ hCfg' = IF c \in hCfg THEN hCfg \ {c} ELSE hCfg \cup {c}
  /\ UNCHANGED <<hDown, hOut>>
  /\ CHFrame

\* The transport of channel c starts or stops failing.
TransportChange(c) ==
  /\ hDown' = IF c \in hDown THEN hDown \ {c} ELSE hDown \cup {c}
  /\ UNCHANGED <<hCfg, hOut>>
  /\ CHFrame

\* A notification with the channel list chans is dispatched.
DispatchPass(chans) ==
  /\ hOut' = PassResult(chans, hCfg, hDown)
  /\ UNCHANGED <<hCfg, hDown>>
  /\ CHFrame

NextHandlers ==
  \/ \E c \in Channels : Configure(c)
  \/ \E c \in Channels : TransportChange(c)
  \/ \E chans \in HChannelLists : DispatchPass(chans)

(***************************************************************************)
(*                            Specifications                               *)
(***************************************************************************)

Init ==
  CBInit /\ NQInit /\ StreamInit /\ ADInit /\ BufferInit /\ ProvInit /\ HandlersInit /\ AlertInit

SpecCB == Init /\ [][NextCB]_vars
SpecQuery == Init /\ [][NextQuery]_vars
SpecQueue == Init /\ [][NextQueue]_vars
SpecNotify == Init /\ [][NextNotify]_vars
SpecBackoff == Init /\ [][NextBackoff]_vars
SpecStream == Init /\ [][NextStream]_vars
SpecConsumers == Init /\ [][NextConsumers]_vars
SpecAD == Init /\ [][NextAD]_vars
SpecBuffer == Init /\ [][NextBuffer]_vars
SpecShutdown == Init /\ [][NextShutdown]_vars
SpecProviders == Init /\ [][NextProviders]_vars
SpecRegistry == Init /\ [][NextRegistry]_vars
SpecHandlers == Init /\ [][NextHandlers]_vars
SpecAlert == Init /\ [][NextAlert]_vars

\* Requests of both kinds keep arriving and are carried through, and time
\* passes.
FairSpecProviders ==
  /\ SpecProviders
  /\ \A k \in RequestKinds : SF_vars(StartRequest(k))
  /\ WF_vars(\E ok \in BOOLEAN : PrimaryAttempt(ok))
  /\ WF_vars(\E ok \in BOOLEAN, client \in BOOLEAN : SecondaryAttempt(ok, client))
  /\ WF_vars(\E parseOk \in BOOLEAN : CallerReturn(parseOk))
  /\ WF_vars(ProvTick)

\* Time passes whatever the callers of buffer_log do.
FairSpecBuffer == SpecBuffer /\ WF_vars(BufTick)

\* asyncio runs every consumer coroutine that is ready, and a stopped
\* consumer is started again.
FairSpecStream ==
  /\ SpecStream
  /\ \A c \in Consumers : WF_vars(ConsumerStep(c))
  /\ \A c \in Consumers : WF_vars(StartConsumer(c, NoHandler))

(***************************************************************************)
(*                               Properties                                *)
(***************************************************************************)

\* C1: on a CLOSED breaker, the counted failure that completes a run of
\* FailureThreshold consecutive counted failures (no recorded success or reset
\* in between) moves the breaker to OPEN, so a CLOSED breaker never carries
\* such a run; and a call checked while the breaker is OPEN and the timeout
\* has not elapsed is rejected (CircuitBreakerOpenError) without func being
\* invoked, leaving the breaker OPEN.
C1_TripThenReject ==
  [][ /\ \A c \in Callers :
           (CallFailure(c) /\ state = CLOSED /\ streak + 1 >= FailureThreshold)
             => state' = OPEN
      /\ state' = CLOSED => streak' < FailureThreshold
      /\ \A c \in Callers :
           (CheckState(c) /\ state = OPEN /\ now - last_failure_time < Timeout)
             => (pc'[c] = "rejected" /\ state' = OPEN)
    ]_vars

\* C1 witness: the breaker was tripped by FailureThreshold consecutive
\* failures and a call made before the timeout is being rejected.
C1_Witness ==
  /\ state = OPEN
  /\ streak >= FailureThreshold
  /\ now - last_failure_time < Timeout
  /\ \E c \in Callers : pc[c] = "rejected"

\* C2: a call checked while the breaker is OPEN is rejected when less than
\* Timeout has passed since last_failure_time; otherwise it is admitted, the
\* state becomes HALF_OPEN and success_count is reset to 0.
C2_OpenAdmission ==
  [][ \A c \in Callers :
        (CheckState(c) /\ state = OPEN) =>
          IF now - last_failure_time < Timeout
          THEN pc'[c] = "rejected" /\ state' = OPEN
          ELSE pc'[c] = "calling" /\ state' = HALF_OPEN /\ success_count' = 0
    ]_vars

\* C2 witness: a trial call was admitted at or after the timeout.
C2_Witness ==
  /\ state = HALF_OPEN
  /\ success_count = 0
  /\ last_failure_time > 0
  /\ now - last_failure_time >= Timeout
  /\ \E c \in Callers : pc[c] = "calling"

\* C3: in HALF_OPEN, the success that brings the number of successes recorded
\* since HALF_OPEN was entered to SuccessThreshold closes the breaker with
\* failure_count = 0, an earlier success leaves it HALF_OPEN, and any counted
\* failure moves it to OPEN.
C3_HalfOpenTransitions ==
  [][ \A c \in Callers :
        /\ (CallSuccess(c) /\ state = HALF_OPEN) =>
             IF hoSucc + 1 >= SuccessThreshold
             THEN state' = CLOSED /\ failure_count' = 0
             ELSE state' = HALF_OPEN
        /\ (CallFailure(c) /\ state = HALF_OPEN) => state' = OPEN
    ]_vars

\* C3 witness: the breaker closed after SuccessThreshold trial successes.
C3_Witness ==
  /\ state = CLOSED
  /\ hoSucc >= SuccessThreshold
  /\ failure_count = 0
  /\ last_failure_time > 0

\* C4: no notification is returned by more than one dequeue() call.
C4_NoDoubleDequeue == \A id \in NotifIds : returned[id] <= 1

\* Urgency of a serialized priority, as the specification orders them.
Urgency(v) ==
  CASE v = "critical" -> 4
    [] v = "high" -> 3
    [] v = "medium" -> 2
    [] v = "low" -> 1

\* C5: the notification a dequeue() call selects is pending and no pending
\* notification is more urgent (CRITICAL before HIGH before MEDIUM before
\* LOW), whatever the enqueue order; and that notification is the one the
\* call removes and returns.
C5_HighestPriorityFirst ==
  [][ \A p \in Dequeuers :
        /\ DequeueRead(p) =>
             \E e \in queue :
               /\ e.m = dq'[p].item
               /\ \A f \in queue : Urgency(f.m.priority) <= Urgency(e.m.priority)
        /\ ClientDequeueRemove(p) =>
             /\ returned'[dq[p].item.id] = returned[dq[p].item.id] + 1
             /\ \A e \in queue' : e.m # dq[p].item
    ]_vars

\* C5 witness: LOW, CRITICAL, MEDIUM and HIGH are pending, LOW enqueued before
\* CRITICAL, and a dequeue() call has selected the CRITICAL one.
C5_Witness ==
  /\ {e.m.priority : e \in queue} = {"low", "critical", "medium", "high"}
  /\ \E p \in Dequeuers, c \in queue, l \in queue :
       /\ dq[p].pc = "zrem"
       /\ dq[p].item = c.m
       /\ c.m.priority = "critical"
       /\ l.m.priority = "low"
       /\ l.score[2] < c.score[2]

InFailed(id) == \E i \in 1..Len(failed) : failed[i].id = id
InQueue(id) == \E e \in queue : e.m.id = id

\* C6: a notification sent through send whose handlers fail on every attempt
\* is dispatched at most 1 + max_retries times (the first attempt and
\* max_retries retries), and once it is in the failed store it has been
\* dispatched exactly 1 + max_retries times and is not pending.  (The
\* ordering of the retry delays is recorded in delaysOk and lastDelay.)
C6_RetriedExactlyMaxRetries ==
  \A id \in SentIds :
    (attempts[id] >= 1 /\ allFailed[id]) =>
      /\ attempts[id] <= 1 + MaxRetries
      /\ InFailed(id) => (attempts[id] = 1 + MaxRetries /\ ~InQueue(id))

\* C7: once ErrorThreshold or more error-level entries of "api-gateway" were
\* consumed within one window, exactly one CRITICAL notification is in the
\* notification queue.
C7_CriticalNotificationEnqueued ==
  winErrs["api-gateway"] >= ErrorThreshold =>
    Cardinality({e \in queue : e.m.priority = "critical"}) = 1

\* C8: within one window and for each service, fewer than ErrorThreshold
\* error-level entries have raised no alert, and ErrorThreshold or more have
\* raised exactly one.
C8_OneAlertPerWindow ==
  \A s \in Services :
    /\ winErrs[s] < ErrorThreshold => winAlerts[s] = 0
    /\ winErrs[s] >= ErrorThreshold => winAlerts[s] = 1

\* C8 witness: an 11th error-level entry of a service was processed in the
\* window with one alert raised, interleaved with entries of another service.
C8_Witness ==
  \E s \in Services, o \in Services :
    /\ s # o
    /\ winErrs[s] > ErrorThreshold
    /\ winAlerts[s] = 1
    /\ winErrs[o] > 0
    /\ winErrs[o] < ErrorThreshold

\* C9: in a run without consumer crash, cancellation or store error, every
\* entry is acknowledged at most once and every handler is invoked at most
\* once per entry; an acknowledged entry had every registered handler invoked
\* exactly once; and once the consumers have read the whole stream and are
\* back at the read, every entry is acknowledged and none is pending.
C9_ExactlyOnceWithoutFaults ==
  faults = 0 =>
    /\ \A e \in Entries :
         /\ ackCount[e] <= 1
         /\ \A i \in HandlerSlots : invoked[e][i] <= 1
         /\ ackCount[e] = 1 => \A i \in 1..ackedWith[e] : invoked[e][i] = 1
         /\ ackCount[e] = 1 => (ackedWith[e] >= 1 /\ pel[e] = NoConsumer)
    /\ (lastDelivered = stream /\ \A c \in Consumers : cons[c].pc \in {"read", "top", "stopped"})
         => \A e \in 1..stream : ackCount[e] = 1 /\ pel[e] = NoConsumer

\* C9 witness: the whole stream was consumed with two handlers registered,
\* every entry acknowledged once, nothing pending.
C9_Witness ==
  /\ faults = 0
  /\ stream = MaxEntries
  /\ Len(handlers) = 2
  /\ \A e \in Entries : ackCount[e] = 1 /\ pel[e] = NoConsumer
  /\ \E e \in Entries : invoked[e][2] = 1
  /\ \E c \in Consumers : cons[c].pc = "read"

\* C10: an entry that is pending (claimed, not acknowledged) is eventually
\* acknowledged.
C10_PendingEventuallyAcked ==
  \A e \in Entries : (pel[e] # NoConsumer) ~> (ackCount[e] > 0)

\* C11 (as stated): a buffer_log call after which the buffer would hold fewer
\* than BatchSize entries does not flush, the call that brings it to BatchSize
\* flushes, and the buffer never holds BatchSize or more entries.
C11_SizeFlushOnly ==
  [][ \A ok \in BOOLEAN :
        BufferLog(ok) =>
          /\ buffer + 1 < BatchSize => (buffer' = buffer + 1 /\ flushes' = flushes)
          /\ buffer + 1 >= BatchSize =>
               (buffer' = 0 /\ flushes' = flushes + 1 /\ lastFlushLen' = buffer + 1)
          /\ buffer' < BatchSize
    ]_vars

\* C11 (amended): while no more than FlushInterval has passed since the last
\* flush, a buffer_log call after which the buffer holds fewer than BatchSize
\* entries does not flush; the call that brings the buffer to BatchSize
\* flushes it whatever the time; and the buffer never holds BatchSize or more
\* entries after a buffer_log call.
C11_SizeFlushWithinInterval ==
  [][ \A ok \in BOOLEAN :
        BufferLog(ok) =>
          /\ (buffer + 1 < BatchSize /\ bufNow - last_flush <= FlushInterval)
               => (buffer' = buffer + 1 /\ flushes' = flushes)
          /\ buffer + 1 >= BatchSize =>
               (buffer' = 0 /\ flushes' = flushes + 1 /\ lastFlushLen' = buffer + 1)
          /\ buffer' < BatchSize
    ]_vars

\* C11 witness: BatchSize - 1 entries were buffered without a flush, the next
\* one flushed all BatchSize entries, and one more is buffered since.
C11_Witness ==
  /\ flushes = 1
  /\ lastFlushLen = BatchSize
  /\ buffered = BatchSize + 1
  /\ buffer = 1

\* C12: once more than FlushInterval has passed since the last flush, an
\* entry waiting in the buffer is eventually flushed, even when no further
\* buffer_log call arrives.
C12_BufferedEventuallyFlushed ==
  (buffer > 0 /\ bufNow - last_flush > FlushInterval) ~> (buffer = 0)

\* C13: once the shutdown is over, every notification that the processor had
\* dequeued is counted as processed, pending in the queue, or in the failed
\* store.
C13_StopLosesNothing ==
  shut = "closed" =>
    \A id \in SentIds :
      returned[id] >= 1 => (incrCount[id] >= 1 \/ InQueue(id) \/ InFailed(id))

C15_OpenEventuallyTrialled ==
  \A n \in {PrimaryName(k) : k \in RequestKinds} :
    (/\ objects[instances[n]].state = OPEN
     /\ provNow - objects[instances[n]].last_failure_time
          >= objects[instances[n]].config.timeout)
      ~> (\/ objects[instances[n]].state # OPEN
          \/ provNow - objects[instances[n]].last_failure_time
                < objects[instances[n]].config.timeout)

\* C16: every construction with a name yields the one instance registered
\* under that name (two holders of a name hold the same object, and no two
\* objects carry the same name), and a call through a breaker changes no
\* object of another name.
C16_SingletonPerName ==
  /\ [](/\ \A h \in Holders :
             heldName[h] # "none" =>
               /\ held[h] = instances[heldName[h]]
               /\ objects[held[h]].name = heldName[h]
        /\ \A g, h \in Holders :
             (heldName[g] # "none" /\ heldName[g] = heldName[h]) => held[g] = held[h]
        /\ \A i, j \in 1..Len(objects) : objects[i].name = objects[j].name => i = j)
  /\ [][ \A h \in Holders :
           (\E ok \in BOOLEAN : HolderCall(h, ok)) =>
             \A i \in 1..Len(objects) :
               objects[i].name # heldName[h] => objects'[i] = objects[i]
       ]_vars

\* C16 witness: two code paths constructed "openai", hold the pre-configured
\* instance, and the failures recorded through them have opened it.
C16_Witness ==
  /\ \A h \in Holders : heldName[h] = "openai" /\ held[h] = instances["openai"]
  /\ objects[instances["openai"]].state = OPEN

\* C17: the processed counter never decreases, no notification sent through
\* send is counted more than once, and a dispatch that leaves failed channels
\* (it creates a requeue task) does not count.
C17_ProcessedOncePerNotification ==
  /\ [](\A id \in SentIds : incrCount[id] <= 1)
  /\ [][processed' >= processed]_vars
  /\ [][\A id \in SentIds :
          incrCount'[id] # incrCount[id] =>
            \A t \in BagToSet(tasks') :
              (t.kind = "backoff" /\ t.n.id = id) => BagIn(t, tasks)]_vars

\* C18: an enqueue during which the store is unavailable or zadd fails returns
\* False and leaves the pending queue, the failed store and the processed
\* counter as they were.
C18_EnqueueFailureLeavesStore ==
  [][\A id \in NotifIds, p \in Priorities :
       QEnqueue(id, p, FALSE) =>
         /\ EnqueueReturn(FALSE) = FALSE
         /\ queue' = queue
         /\ failed' = failed
         /\ processed' = processed]_vars

\* C18 witness: a notification was handed to enqueue, is not pending and was
\* never dequeued: its enqueue failed.
C18_Witness ==
  \E id \in NotifIds : attempts[id] = 0 /\ ~InQueue(id) /\ returned[id] = 0

\* C19 as stated: every send leaves the notification in the pending queue; a
\* CRITICAL send also starts an immediate dispatch; a notification of any
\* other priority has no handler invoked before the processor dequeued it.
C19_SendAlwaysQueues ==
  /\ [][\A id \in SentIds, p \in Priorities, ch \in ChannelArgs, ok \in BOOLEAN :
          Send(id, p, ch, ok) =>
            /\ \E e \in queue' : e.m.id = id
            /\ IF p = "CRITICAL"
               THEN tasks' = tasks (+) OneTask(DispatchTask(NewNotification(id, p, ch)))
               ELSE tasks' = tasks]_vars
  /\ [](\A id \in SentIds :
          (sentPriority[id] \notin {"none", "CRITICAL"} /\ attempts[id] >= 1)
            => returned[id] >= 1)

\* C19 amended: every send calls enqueue, which leaves the notification in the
\* pending queue when the store accepts the write and leaves the queue as it
\* was otherwise; the rest as stated.
C19_SendQueuesWhenStoreAccepts ==
  /\ [][\A id \in SentIds, p \in Priorities, ch \in ChannelArgs, ok \in BOOLEAN :
          Send(id, p, ch, ok) =>
            /\ IF ok THEN \E e \in queue' : e.m.id = id ELSE queue' = queue
            /\ IF p = "CRITICAL"
               THEN tasks' = tasks (+) OneTask(DispatchTask(NewNotification(id, p, ch)))
               ELSE tasks' = tasks]_vars
  /\ [](\A id \in SentIds :
          (sentPriority[id] \notin {"none", "CRITICAL"} /\ attempts[id] >= 1)
            => returned[id] >= 1)

\* C19 witness: a CRITICAL notification was sent, is pending in the queue and
\* its immediate dispatch task exists, no handler having run yet.
C19_Witness ==
  \E id \in SentIds :
    /\ sentPriority[id] = "CRITICAL"
    /\ InQueue(id)
    /\ attempts[id] = 0
    /\ \E t \in BagToSet(tasks) : t.kind = "dispatch" /\ t.n.id = id

\* C20: a dispatch with failed channels creates one requeue of the
\* notification narrowed to exactly those channels, a dispatch without any
\* creates none, and no channel that succeeded for a notification is invoked
\* for it again.
C20_OnlyFailedChannelsRetried ==
  /\ [][\A F \in SUBSET Channels, ok \in BOOLEAN :
          ProcessorDispatch(F, ok) =>
            LET n == dq[Processor].item IN
              IF FailedChannels(n, F) = <<>>
              THEN tasks' = tasks
              ELSE tasks' = tasks (+)
                     OneTask(BackoffTask([n EXCEPT !.channels = FailedChannels(n, F)]))]_vars
  /\ [](\A id \in SentIds : ~reinvoked[id])

\* C21: in every dispatch pass a channel whose settings are absent has its
\* handler return without raising, is not among the failed channels and is
\* not requeued; every channel of the list is invoked whatever the others
\* did; a pass in which no handler raised requeues nothing.
C21_AbsentConfigSkipped ==
  /\ Len(hOut.outcome) = Len(hOut.channels)
  /\ \A i \in 1..Len(hOut.channels) :
       hOut.channels[i] \notin hCfg =>
         /\ hOut.outcome[i] \in {"skipped", "swallowed"}
         /\ hOut.channels[i] \notin SeqRange(hOut.failed_channels)
         /\ hOut.channels[i] \notin SeqRange(hOut.requeued)
  /\ (hOut # NoPass /\ \A i \in 1..Len(hOut.channels) : hOut.outcome[i] # "raised")
       => (hOut.requeued = <<>> /\ hOut.counted)

\* C21 witness: a pass over EMAIL and SLACK with no EMAIL settings: EMAIL was
\* skipped, SLACK was delivered, nothing was requeued.
C21_Witness ==
  /\ hOut.channels = <<"EMAIL", "SLACK">>
  /\ hOut.outcome = <<"skipped", "sent">>
  /\ hOut.requeued = <<>>
  /\ hOut.counted

\* C22: in every dispatch pass a channel whose settings are present and whose
\* transport fails has its handler raise, is recorded as failed and is
\* requeued.
C22_TransportFailureRaises ==
  \A i \in 1..Len(hOut.channels) :
    (hOut.channels[i] \in hCfg /\ hOut.channels[i] \in hOut.down) =>
      /\ hOut.outcome[i] = "raised"
      /\ hOut.channels[i] \in SeqRange(hOut.failed_channels)
      /\ hOut.channels[i] \in SeqRange(hOut.requeued)

\* C23: an entry is acknowledged only once every registered handler has been
\* invoked on it; a handler that raises leaves the entry current with the
\* next handler due, the batch as it was and the entry pending, so the
\* remaining handlers, the acknowledgment and the rest of the batch follow.
C23_AckAfterAllHandlers ==
  /\ [][\A c \in Consumers :
          AckEntry(c) =>
            \A i \in 1..Len(handlers) : invoked[Head(cons[c].batch)][i] >= 1]_vars
  /\ [][\A c \in Consumers :
          InvokeHandler(c, TRUE) =>
            /\ cons'[c].pc = "entry"
            /\ cons'[c].batch = cons[c].batch
            /\ cons'[c].h = cons[c].h + 1
            /\ pel' = pel]_vars
  /\ [](\A c \in Consumers :
          cons[c].pc = "entry" =>
            \A i \in 1..Len(handlers) :
              i < cons[c].h => invoked[Head(cons[c].batch)][i] >= 1)

\* C23 witness: with two handlers registered, a handler raised on entry 1,
\* both handlers were invoked on it and it was acknowledged, and the next
\* entry of the stream was acknowledged too.
C23_Witness ==
  /\ Len(handlers) = 2
  /\ raisedOn[1]
  /\ invoked[1][1] >= 1 /\ invoked[1][2] >= 1
  /\ ackCount[1] = 1
  /\ ackCount[2] = 1

\* C24: while the delivery of an anomaly alert is in flight the consumer is
\* not held by it: process_log has returned and the consumer is at the
\* acknowledgment of the entry or at its next read.
C24_AlertDoesNotBlockConsumer ==
  alDelivery = "inflight" => alPc \in {"ack", "read"}

\* C25: in CLOSED a recorded success sets failure_count to 0 and leaves the
\* breaker CLOSED; a CLOSED breaker opens only on the failure that completes
\* FailureThreshold counted failures with no success in between, and a
\* failure that leaves the run shorter leaves it CLOSED; so in CLOSED
\* failure_count is the length of the current run, whatever the number of
\* failures recorded since the breaker closed.
C25_SlidingReset ==
  /\ [][\A c \in Callers :
          /\ (CallSuccess(c) /\ state = CLOSED) =>
               (failure_count' = 0 /\ state' = CLOSED)
          /\ (CallFailure(c) /\ state = CLOSED /\ state' = OPEN) =>
               streak + 1 >= FailureThreshold
          /\ (CallFailure(c) /\ state = CLOSED /\ streak + 1 < FailureThreshold) =>
               state' = CLOSED]_vars
  /\ [](state = CLOSED => (failure_count = streak /\ failure_count < FailureThreshold))

\* C25 witness: more than FailureThreshold failures were recorded since the
\* breaker closed, interleaved with successes, and it is still CLOSED.
C25_Witness ==
  /\ state = CLOSED
  /\ cumFails > FailureThreshold
  /\ failure_count < FailureThreshold

\* C26: an excluded exception raised by func leaves state, failure_count,
\* success_count and last_failure_time as they were, in every breaker state,
\* and the caller gets it (the call is over); an exception that is not
\* excluded increments failure_count.
C26_ExcludedNotCounted ==
  [][\A c \in Callers :
       /\ CallExcluded(c) =>
            /\ UNCHANGED <<state, failure_count, success_count, last_failure_time>>
            /\ pc'[c] = "idle"
       /\ CallFailure(c) => failure_count' = failure_count + 1]_vars

\* C26 witness: excluded exceptions were raised with the breaker CLOSED, OPEN
\* and HALF_OPEN.
C26_Witness ==
  exclSeen = {CLOSED, OPEN, HALF_OPEN}

\* C27: a call rejected by an OPEN breaker never reaches func, gets
\* CircuitBreakerOpenError, and neither the rejection nor the raise changes
\* state, failure_count, success_count or last_failure_time.
C27_RejectionNotCounted ==
  [][\A c \in Callers :
       /\ (CheckState(c) /\ pc'[c] = "rejected") =>
            /\ state = OPEN
            /\ UNCHANGED <<state, failure_count, success_count, last_failure_time>>
       /\ RaiseOpen(c) =>
            /\ pc[c] = "rejected" /\ pc'[c] = "idle"
            /\ UNCHANGED <<state, failure_count, success_count, last_failure_time>>]_vars

\* C27 witness: after a rejection was raised to one caller the breaker is
\* still OPEN with the failure_count that opened it, another caller being
\* rejected.
C27_Witness ==
  /\ state = OPEN
  /\ failure_count = FailureThreshold
  /\ \E c \in Callers, d \in Callers :
       c # d /\ pc[c] = "rejected" /\ pc[d] = "idle"
  /\ now > last_failure_time

\* C28: a state query changes none of state, failure_count, success_count and
\* last_failure_time, and returns what is stored: is_open is TRUE on an OPEN
\* breaker also after its timeout has elapsed.
C28_QueriesReadOnly ==
  /\ [][\A q \in Queries :
          Query(q) =>
            UNCHANGED <<state, failure_count, success_count, last_failure_time>>]_vars
  /\ [](lastQuery.q = "is_open" /\ lastQuery.late => lastQuery.r = TRUE)

\* C28 witness: is_open was read on an OPEN breaker whose timeout had elapsed;
\* it returned TRUE and the breaker is still OPEN.
C28_Witness ==
  /\ lastQuery.q = "is_open"
  /\ lastQuery.late
  /\ lastQuery.r = TRUE
  /\ state = OPEN
  /\ now - last_failure_time >= Timeout

\* The notifications held by the service outside the stores: the one the
\* processor has dequeued, and those of the dispatch, backoff and sleep tasks.
InFlight ==
  {dq[Processor].item : x \in {y \in {1} : dq[Processor].pc = "got"}}
    \cup {t.n : t \in BagToSet(tasks)}

\* C29: every notification that is pending, in flight or waiting out a
\* backoff has retry_count <= max_retries; every record of the failed store
\* has retry_count = max_retries + 1; and once a notification is in the failed
\* store no member carrying its id is added to the pending queue.
C29_FailedNeverRequeued ==
  /\ [](\A e \in queue : e.m.retry_count <= e.m.max_retries)
  /\ [](\A n \in InFlight : n.retry_count <= n.max_retries)
  /\ [](\A i \in 1..Len(failed) : failed[i].retry_count = failed[i].max_retries + 1)
  /\ [][\A id \in SentIds :
          InFailed(id) => \A e \in queue' \ queue : e.m.id # id]_vars

\* The retry tasks that are waiting out their delay.
Waiting == {t \in BagToSet(tasks) : t.kind = "sleep" /\ nqNow < t.wake}

\* C30: while a notification waits out its retry delay the processor is not
\* held by it: whenever it has a notification in hand or one is pending, its
\* next step (read, remove or dispatch) can be taken; a dequeue by another
\* caller can proceed likewise, and an enqueue of a new notification can
\* complete.
C30_BackoffDoesNotBlock ==
  Waiting # {} =>
    /\ (queue # {} \/ dq[Processor].pc # "idle") =>
         ENABLED (\/ DequeueRead(Processor)
                  \/ DequeueRemove(Processor)
                  \/ \E F \in SUBSET Channels, ok \in BOOLEAN : ProcessorDispatch(F, ok))
    /\ (queue # {} \/ dq[Client].pc # "idle") =>
         ENABLED (DequeueRead(Client) \/ ClientDequeueRemove(Client))
    /\ \A id \in BackoffIds :
         (attempts[id] = -1 /\ nextId < MaxNotifs) =>
           ENABLED QEnqueue(id, "HIGH", TRUE)

\* C30 witness: one notification is waiting out its delay, the processor has
\* dispatched another one during such a wait and holds a dequeued
\* notification again, and a client's dequeue is under way.
C30_Witness ==
  /\ otherDispatched
  /\ dq[Processor].pc = "got"
  /\ dq[Client].pc = "zrem"
  /\ \E t \in Waiting : t.n.id # dq[Processor].item.id

\* C31: a notification that is enqueued (or enqueued again) ranks behind every
\* pending notification of its priority, so that dequeue, which takes the
\* entry of lowest rank, returns notifications of one priority in the order
\* of their enqueue; and the entry a dequeue selects ranks before every other
\* pending entry, the time term never outweighing the priority.
C31_FifoWithinPriority ==
  /\ [][\A e \in queue' \ queue :
          \A f \in queue :
            (f.m.priority = e.m.priority /\ f.m # e.m) => EntryLess(f, e)]_vars
  /\ [][\A p \in Dequeuers :
          (dq[p].pc = "idle" /\ dq'[p].pc = "zrem") =>
            \E e \in queue :
              /\ e.m = dq'[p].item
              /\ \A f \in queue \ {e} :
                   /\ EntryLess(e, f)
                   /\ PriorityScore(PriorityOf(e.m.priority))
                        <= PriorityScore(PriorityOf(f.m.priority))]_vars

C33_LazyAtomicReset ==
  [][\A service \in Services, level \in Levels :
       ProcessLog(service, level) =>
         /\ adNow - last_reset > ErrorWindow =>
              /\ last_reset' = adNow
              /\ error_counts' = [s \in Services |->
                                    IF s = service /\ IsErrorLevel(level) THEN 1 ELSE 0]
              /\ alerted_services' = {}
         /\ adNow - last_reset <= ErrorWindow =>
              /\ last_reset' = last_reset
              /\ alerted_services \subseteq alerted_services'
              /\ \A s \in Services : error_counts'[s] >= error_counts[s]
         /\ adNow' - last_reset' <= ErrorWindow]_vars

\* C33 witness: a service that was alerted in an earlier window has, after a
\* reset, a count of 1 again and is not marked alerted, and neither is any
\* other service.
C33_Witness ==
  /\ last_reset > 0
  /\ alerted_services = {}
  /\ \E s \in Services :
       /\ telegramAlerts[s] = 1
       /\ error_counts[s] = 1
       /\ \A o \in Services \ {s} : error_counts[o] = 0

\* C36: whenever ErrorThreshold error-level entries of one service were
\* processed within one clock step and the step before it (a span shorter
\* than ErrorWindow), an alert for that service was raised within that span.
C36_SlidingWindowAlert ==
  span.prev + span.now >= ErrorThreshold => (span.alertPrev \/ span.alertNow)

\* C34: the entries handed to publish_batch so far are exactly those buffered
\* before the ones still in the buffer; a flush empties the buffer and hands
\* over, as one batch, the entries that follow the previous batch up to the
\* one just buffered, and the stream grows by the whole batch or not at all;
\* a batch that was not published has a log record of the failure.
C34_FlushHandsEachEntryOnce ==
  /\ [](buffered - buffer = lastBatch.to)
  /\ [][flushes' # flushes =>
          /\ flushes' = flushes + 1
          /\ buffer' = 0
          /\ lastBatch'.from = lastBatch.to + 1
          /\ lastBatch'.to = buffered'
          /\ lastBatch'.to - lastBatch'.from + 1 = buffer + 1
          /\ stream' - stream = (IF lastBatch'.ok THEN buffer + 1 ELSE 0)]_vars
  /\ [](~lastBatch.ok => lastBatch.logged)

\* C34 witness: a second batch, of several entries, was handed over and its
\* publish failed, with the failure logged; the buffer is empty.
C34_Witness ==
  /\ flushes >= 2
  /\ lastBatch.from > 1
  /\ lastBatch.to > lastBatch.from
  /\ ~lastBatch.ok
  /\ lastBatch.logged
  /\ buffer = 0

\* Retry numbers over which the delay function is tabulated.
MaxRetryExp == 8

\* C35: a retry task that starts to sleep has counted its retry k, with
\* 1 <= k <= max_retries, and sleeps min(BackoffCap, BackoffBase * 2^k)
\* seconds, which is 20, 40 or 80 for max_retries = 3; over the retry numbers
\* 1..MaxRetryExp the delay never decreases and never exceeds BackoffCap.
C35_BackoffDelays ==
  /\ [][\A t \in BagToSet(tasks') \ BagToSet(tasks) :
          t.kind = "sleep" =>
            /\ t.n.retry_count \in 1..t.n.max_retries
            /\ t.wake - nqNow = Min(BackoffCap, BackoffBase * Pow2(t.n.retry_count))
            /\ t.wake - nqNow = (CASE t.n.retry_count = 1 -> 20
                                   [] t.n.retry_count = 2 -> 40
                                   [] t.n.retry_count = 3 -> 80)]_vars
  /\ [](\A k \in 1..MaxRetryExp :
          /\ BackoffDelay(k) <= BackoffCap
          /\ BackoffDelay(k) <= BackoffDelay(k + 1)
          /\ BackoffDelay(k) = Min(BackoffCap, BackoffBase * Pow2(k)))

\* C35 witness: a notification is waiting out the delay of its third retry,
\* 80 seconds, after delays of 20 and 40 seconds.
C35_Witness ==
  \E t \in BagToSet(tasks) :
    /\ t.kind = "sleep"
    /\ t.n.retry_count = MaxRetries
    /\ lastDelay[t.n.id] = 80
    /\ nqNow >= 20 + 40
    /\ t.wake > nqNow

\* C37: in every reachable state of the breaker, under any interleaving of
\* concurrent calls and manual resets, CLOSED implies
\* failure_count < failure_threshold and HALF_OPEN implies
\* success_count < success_threshold.
C37_CounterBounds ==
  /\ state = CLOSED => failure_count < FailureThreshold
  /\ state = HALF_OPEN => success_count < SuccessThreshold

\* C37 witness: the breaker has recovered through HALF_OPEN (success_count is
\* still the threshold it reached) and, CLOSED again, has counted failures up
\* to one below the threshold while another call is in flight.
C37_Witness ==
  /\ state = CLOSED
  /\ failure_count = FailureThreshold - 1
  /\ success_count = SuccessThreshold
  /\ \E c \in Callers : pc[c] = "calling"

\* The transitions that calls can cause.
CallEdges ==
  {<<CLOSED, OPEN>>, <<OPEN, HALF_OPEN>>, <<HALF_OPEN, CLOSED>>,
   <<HALF_OPEN, OPEN>>}

\* C38: a step of a call (one that moves a caller) changes the state only
\* along CLOSED -> OPEN, OPEN -> HALF_OPEN, HALF_OPEN -> CLOSED or
\* HALF_OPEN -> OPEN; any other change of state is a manual reset, which
\* leaves the breaker CLOSED with zero counters; and a call that completes
\* while the breaker is OPEN either records a failure or changes nothing, so a
\* success reported while OPEN leaves every field as it was.
C38_TransitionEdges ==
  /\ [][(state' # state /\ pc' # pc) => <<state, state'>> \in CallEdges]_vars
  /\ [][(state' # state /\ pc' = pc) =>
          /\ state' = CLOSED
          /\ failure_count' = 0
          /\ success_count' = 0
          /\ last_failure_time' = 0]_vars
  /\ [][\A c \in Callers :
          (state = OPEN /\ pc[c] = "calling" /\ pc'[c] = "idle") =>
            \/ /\ failure_count' = failure_count + 1
               /\ last_failure_time' = now
               /\ state' = OPEN
            \/ UNCHANGED <<state, failure_count, success_count,
                           last_failure_time>>]_vars

\* C38 witness: a call admitted earlier has reported its success while the
\* breaker was OPEN, and the breaker is still OPEN with its counts of the trip.
C38_Witness ==
  /\ lateSuccess
  /\ state = OPEN
  /\ failure_count = FailureThreshold
  /\ success_count = 0

\* C39: for a notification sent once through send, of any priority (a
\* CRITICAL one is both queued and dispatched immediately), no channel's
\* handler succeeds for it more than once.
C39_NoDuplicateDelivery == \A id \in SentIds : ~redelivered[id]

\* The invocations of the handler registered under name h for entry e.
RECURSIVE InvocationsOf(_, _, _)
InvocationsOf(e, h, i) ==
  IF i = 0 THEN 0
  ELSE InvocationsOf(e, h, i - 1)
         + (IF i <= Len(handlers) /\ handlers[i] = h THEN invoked[e][i] ELSE 0)

\* C40: however many consumers have been started with the same handler
\* argument, that handler is registered once, and every registered handler
\* is invoked at most once for each consumed entry.
C40_HandlerRegisteredOnce ==
  /\ \A i, j \in 1..Len(handlers) : handlers[i] = handlers[j] => i = j
  /\ \A e \in Entries : \A h \in SeqRange(handlers) :
        InvocationsOf(e, h, Len(handlers)) <= 1

====
